---- MODULE Spec2Model ----
(***************************************************************************)
(* Model of the inheritance knowledge-graph tooling:                       *)
(*   - the Neo4j store as seen through Neo4jGraphService (query,           *)
(*     clear_graph, finalize),                                             *)
(*   - the ingest and visualize commands of agent/inheritance/cli.py, one  *)
(*     step per Cypher statement they await,                               *)
(*   - the retrieve_* tools of agent/inheritance/agent.py,                 *)
(*   - the methods of Neo4jGraphService and GraphitiGraphService called    *)
(*     one at a time on a service object, those of the Graphiti service    *)
(*     one step per stretch of code between two awaits that wait,          *)
(*   - two runs of ingest() on one store, one step per statement issued    *)
(*     and one per statement answered,                                     *)
(*   - any two methods of one GraphitiGraphService as asyncio tasks, in    *)
(*     the same steps,                                                     *)
(*   - the executions of main() of app.py within one chat session,         *)
(*   - ingest_md_urls and _ingest_single_document of GraphRAGService.      *)
(*                                                                         *)
(* A node is [label, k, props]; props.name is the natural key and k tells  *)
(* apart nodes that share label and name.  An edge is [type, src, dst, k]  *)
(* with src/dst node references and k telling apart parallel edges.        *)
(***************************************************************************)
EXTENDS Integers, Sequences, FiniteSets, TLC

\* ---------------------------------------------------------------- bounds
MaxPersons == 2      \* longest persons.json that is enumerated
MaxProps   == 1      \* longest properties.json that is enumerated
MaxFaults  == 1      \* store errors injected per behaviour
MaxRuns    == 2      \* command runs per behaviour

\* ------------------------------------------------------- python helpers
\* variant: only the "n/a" literal is screened, the empty string is not
NotSentinelNaOnly(v) == v # "n/a"

\* `if v and v != "n/a"` (cli.py 100, 104, 108, 112, 117, 122, 479, 483, 487)
NotSentinel(v) == v # "" /\ v # "n/a"

\* dict[k] = v on an insertion-ordered dict kept as a sequence of <<k, v>>
DictHas(d, key) == \E i \in 1..Len(d) : d[i][1] = key
DictPut(d, key, v) ==
    IF DictHas(d, key)
    THEN [i \in 1..Len(d) |-> IF d[i][1] = key THEN <<key, v>> ELSE d[i]]
    ELSE Append(d, <<key, v>>)

\* d.setdefault(key, set()).add(e)
DictAddTo(d, key, e) ==
    IF DictHas(d, key)
    THEN [i \in 1..Len(d) |-> IF d[i][1] = key THEN <<key, d[i][2] \cup {e}>> ELSE d[i]]
    ELSE Append(d, <<key, {e}>>)

\* the (key, item) pairs visited by `for k, lst in d.items(): for x in lst`
RECURSIVE FlattenLists(_)
FlattenLists(d) ==
    IF d = <<>> THEN <<>>
    ELSE [j \in 1..Len(d[1][2]) |-> <<d[1][1], d[1][2][j]>>] \o FlattenLists(Tail(d))

\* ----------------------------------------------------- record classes
PersonScalars ==
    {"name", "residence_country", "residence_city", "profession", "gender",
     "education", "birth_city", "birth_country", "birth_day", "birth_month",
     "birth_year", "death_city", "death_country", "death_day", "death_month",
     "death_year", "photo", "birth_certificate", "death_certificate",
     "inheritance_confinement"}
PersonListFields == {"children", "spouses"}

PropertyFields ==
    {"name", "lot", "description", "location", "city", "country", "area",
     "area_unit", "shares", "owner", "possessed", "unsold", "organized",
     "effects"}

\* Person(**person_data): TypeError on a missing required or an unexpected key
CanBuildPerson(data) ==
    /\ PersonScalars \subseteq DOMAIN data
    /\ DOMAIN data \subseteq PersonScalars \cup PersonListFields

\* the dataclass instance; children/spouses default to the empty list
Person(data) ==
    [f \in PersonScalars \cup PersonListFields |->
        IF f \in DOMAIN data THEN data[f] ELSE <<>>]

\* Property(**prop_data): every field is required
CanBuildProperty(data) == DOMAIN data = PropertyFields

\* the params mapping of the Person upsert: every scalar attribute
PersonParams(person) == [f \in PersonScalars |-> person[f]]

\* ---------------------------------------------------------- the store
Ref(n) == [label |-> n.label, name |-> n.props.name, k |-> n.k]

\* MATCH (x:label {name: $name})
Match(ns, label, name) == {n \in ns : n.label = label /\ n.props.name = name}

\* variant: ON MATCH leaves the node as it is
OnMatchKeep(n, props) == n

\* ON MATCH SET p.<attribute> = $<attribute>, for every attribute but the name
\* (cli.py 150-169, 513-526)
OnMatchSet(n, props) == [n EXCEPT !.props = props]

\* variant: CREATE instead of MERGE, a new node whatever the store holds
CreateSetNode(ns, label, props) ==
    ns \cup {[label |-> label,
              k |-> Cardinality({n \in ns : n.label = label /\ n.props.name = props.name}) + 1,
              props |-> props]}

\* MERGE (p:label {name: $name}) ON CREATE SET ... ON MATCH SET ... (all attributes)
MergeSetNode(ns, label, props) ==
    IF Match(ns, label, props.name) = {}
    THEN ns \cup {[label |-> label, k |-> 1, props |-> props]}
    ELSE {IF n \in Match(ns, label, props.name) THEN OnMatchSet(n, props) ELSE n
            : n \in ns}

\* variant: CREATE (c:label {name: $name})
CreateNode(ns, label, name) ==
    ns \cup {[label |-> label,
              k |-> Cardinality({n \in ns : n.label = label /\ n.props.name = name}) + 1,
              props |-> [name |-> name]]}

\* MERGE (c:label {name: $name})
MergeNode(ns, label, name) ==
    IF Match(ns, label, name) = {}
    THEN ns \cup {[label |-> label, k |-> 1, props |-> [name |-> name]]}
    ELSE ns

\* the client's add_episode: a new Episodic node for every episode, whether
\* or not one of its name is there
EpisodeNode(ns, name) ==
    ns \cup {[label |-> "Episodic",
              k |-> Cardinality({n \in ns : n.label = "Episodic" /\ n.props.name = name}) + 1,
              props |-> [name |-> name]]}

\* variant: CREATE (a)-[:type]->(b), a new edge per matched pair
CreateEdges(es, type, A, B) ==
    es \cup {[type |-> type, src |-> Ref(ab[1]), dst |-> Ref(ab[2]),
              k |-> Cardinality({e \in es : /\ e.type = type
                                             /\ e.src = Ref(ab[1])
                                             /\ e.dst = Ref(ab[2])}) + 1]
               : ab \in A \X B}

\* variant: the edge takes the place of the edges of its type that a has
MergeEdgesReplacing(es, type, A, B) ==
    {e \in es : ~(e.type = type /\ \E a \in A : e.src = Ref(a))}
    \cup {[type |-> type, src |-> Ref(ab[1]), dst |-> Ref(ab[2]), k |-> 1] : ab \in A \X B}

\* MATCH (a), (b) MERGE (a)-[:type]->(b): one edge per matched pair that has none
MergeEdges(es, type, A, B) ==
    es \cup {[type |-> type, src |-> Ref(a), dst |-> Ref(b), k |-> 1]
               : <<a, b>> \in {ab \in A \X B :
                    ~\E e \in es : /\ e.type = type
                                   /\ e.src = Ref(ab[1])
                                   /\ e.dst = Ref(ab[2])}}

\* statements issued by the ingestion command
UpsertStmt(label, props) == [op |-> "upsert", label |-> label, props |-> props]
NodeStmt(label, name)    == [op |-> "node", label |-> label, name |-> name]
\* MATCH (a:la {name: $a}), (b:lb {name: $b}) MERGE (a)-[:fwd]->(b) [MERGE (b)-[:inv]->(a)]
EdgeStmt(la, a, lb, b, fwd, inv) ==
    [op |-> "edge", la |-> la, a |-> a, lb |-> lb, b |-> b, fwd |-> fwd, inv |-> inv]

\* variant: the edge statement MERGEs its whole pattern, creating an endpoint
\* that does not exist
ApplyStmtMergingEndpoints(s, ns, es) ==
    CASE s.op = "upsert" ->
            [nodes |-> MergeSetNode(ns, s.label, s.props), edges |-> es]
      [] s.op = "node" ->
            [nodes |-> MergeNode(ns, s.label, s.name), edges |-> es]
      [] s.op = "edge" ->
            LET ns2 == MergeNode(MergeNode(ns, s.la, s.a), s.lb, s.b)
                A   == Match(ns2, s.la, s.a)
                B   == Match(ns2, s.lb, s.b)
                e1  == MergeEdges(es, s.fwd, A, B)
            IN [nodes |-> ns2,
                edges |-> IF s.inv = "" THEN e1 ELSE MergeEdges(e1, s.inv, B, A)]

\* the effect of one successfully executed statement on the store
ApplyStmt(s, ns, es) ==
    CASE s.op = "upsert" ->
            [nodes |-> MergeSetNode(ns, s.label, s.props), edges |-> es]
      [] s.op = "node" ->
            [nodes |-> MergeNode(ns, s.label, s.name), edges |-> es]
      [] s.op = "edge" ->
            LET A  == Match(ns, s.la, s.a)
                B  == Match(ns, s.lb, s.b)
                e1 == MergeEdges(es, s.fwd, A, B)
            IN [nodes |-> ns,
                edges |-> IF s.inv = "" THEN e1 ELSE MergeEdges(e1, s.inv, B, A)]

\* ------------------------------------------------------ source records
\* persons.json / properties.json entries; unnamed attributes are "n/a"
PersonData(over) == over @@ [f \in PersonScalars |-> "n/a"]

PropertyData(over) ==
    over @@ [f \in {"name", "lot", "description", "location", "city", "country",
                    "area_unit", "owner"} |-> "n/a"]
         @@ [area |-> 0, shares |-> 1, possessed |-> FALSE, unsold |-> FALSE,
             organized |-> FALSE, effects |-> FALSE]

PersonPool ==
    { PersonData([name |-> "Alice", residence_country |-> "Lebanon",
                  residence_city |-> "Beirut", children |-> <<"Bob">>]),
      PersonData([name |-> "Bob", residence_city |-> "Beirut",
                  birth_country |-> "Syria", birth_city |-> "",
                  death_country |-> "Syria", death_city |-> "Aleppo",
                  children |-> <<"Zed">>, spouses |-> <<"Alice", "Zed">>]),
      PersonData([name |-> "Alice", residence_country |-> "Syria",
                  birth_country |-> "Lebanon", birth_city |-> "Beirut",
                  death_country |-> "", death_city |-> "Aleppo",
                  profession |-> "notary", children |-> <<"Bob", "Bob">>]),
      PersonData([name |-> "Bob"]),
      [name |-> "Eve", residence_country |-> "Lebanon"] }

PropertyPool ==
    { PropertyData([name |-> "Farm", owner |-> "Alice", city |-> "Beirut",
                    country |-> "Lebanon"]),
      PropertyData([name |-> "Shop", owner |-> "Zed", city |-> "Homs",
                    country |-> ""]),
      PropertyData([name |-> "Farm", owner |-> "Bob", country |-> "Syria",
                    lot |-> "12"]),
      [name |-> "Barn", owner |-> "Alice"] }

SeqsUpTo(S, n) == UNION {[1..m -> S] : m \in 0..n}

\* content left in the store by an earlier ingestion of other records
StaleNodes ==
    { [label |-> "Person", k |-> 1, props |-> PersonParams(Person(
          PersonData([name |-> "Omar", residence_country |-> "Egypt",
                      residence_city |-> "Cairo"])))],
      [label |-> "Country", k |-> 1, props |-> [name |-> "Egypt"]],
      [label |-> "City", k |-> 1, props |-> [name |-> "Cairo"]] }

StaleEdges ==
    LET omar  == [label |-> "Person", name |-> "Omar", k |-> 1]
        egypt == [label |-> "Country", name |-> "Egypt", k |-> 1]
        cairo == [label |-> "City", name |-> "Cairo", k |-> 1]
    IN { [type |-> "RESIDENT_OF", src |-> omar, dst |-> cairo, k |-> 1],
         [type |-> "RESIDENT_OF", src |-> omar, dst |-> egypt, k |-> 1],
         [type |-> "HAS_CITY", src |-> egypt, dst |-> cairo, k |-> 1],
         [type |-> "HAS_COUNTRY", src |-> cairo, dst |-> egypt, k |-> 1] }

\* ------------------------------------------------------------- state
VARIABLES
    nodes, edges,            \* the Neo4j database
    driver,                  \* Neo4jGraphService.driver: "none" | "open" | "closed"
    persons, properties,     \* data/persons.json, data/properties.json
    reordered,               \* the records of the files were put in another order
    pc, idx, visited,        \* position of the command: step, loop index, set-loop progress
    mode,                    \* "ingest" | "visualize" (the commands) | "phases" (the two phases called directly)
    files,                   \* visualize: which of its input files exist and load
    finalizes,               \* graph_svc.finalize() calls of the current run
    escaped,                 \* an exception left the command function
    runs,                    \* command runs started so far
    \* locals of _ingest_persons
    children, spouses, countries, cities,
    residence_cities, residence_countries, birth_cities, birth_countries,
    death_cities, death_countries, countrycities,
    \* locals of _ingest_properties
    owners, prop_countries, prop_cities,
    \* observations of the current run
    failed,                  \* statements that raised a store error
    issued,                  \* number of write statements issued
    written,                 \* the write statements issued, in the order of their
                             \* issue: one set for the statements of a loop over a
                             \* Python set, one for every other statement
    caught,                  \* except-blocks entered: "clear", "persons", "properties"
    faults,                  \* store errors injected so far
    prevMode, snap,          \* mode of the previous run, store when this run started
    \* the last agent tool call
    tool, arg,               \* which retrieve_* tool, and its `person` argument
    records,                 \* the rows it returned, as a bag: row -> number of copies
    raised,                  \* its graph query raised (and the tool returned [])
    \* a graph service object and the methods called on it
    svc,                     \* [backend, graphiti, indices, shut]: the object's fields,
                             \* whether the client's indices are built and whether
                             \* close() has been called on the client assigned
    env,                     \* the backend credentials present in the environment
    call,                    \* the last method call: what was called (op), how it
                             \* ended (outcome, result), the requests it sent to the
                             \* store (sent), what failed under it (fault), whether a
                             \* call before it had returned (prior), the store's
                             \* answer to its statement (answer), calls so far (n),
                             \* what it had done to the store, in order (events:
                             \* "indices" built, data "clear"ed), whether a close
                             \* or finalize has returned by now (closed); op and
                             \* outcome are "pending" while a method is under way
    last,                    \* the call before it and the state the last call was made in
    \* two runs of ingest() at work on the one store
    proc,                    \* per run: the group of statements it is at (at), the
                             \* statements of the group already issued (visited),
                             \* statements sent and not yet answered (inflight),
                             \* statements answered, in the order the store answered
                             \* them (log), those answered with an error (failed),
                             \* whether the run is over (done), whether a statement
                             \* of it was answered while the other run was between
                             \* its first answer and its end (met)
    \* the components apart from the commands
    tasks,                   \* the methods of one Graphiti service running as asyncio
                             \* tasks: where each one is (at), which method it is
                             \* (kind), the requests it has sent to the store (sent),
                             \* the service as it was when the method began and when
                             \* it ended (began, left), what it returned (result),
                             \* what failed under it (fault), what it has done to
                             \* the store, in order (events), the episode id that
                             \* add_episode is called with (episode), the client it
                             \* constructed (own); the client assigned
                             \* (cur, 0 for none or for the one there at the start),
                             \* clients constructed (built), whether a client call
                             \* was made before the indices were built (early),
                             \* whether a clear_graph has fallen back (fell), whether
                             \* a client call was made on a client on which close()
                             \* had been called (stale)
    chat,                    \* the chat application, one main() per page load or
                             \* prompt: see NoChat
    doc,                     \* a call of GraphRAGService: see NoDoc
    deps                     \* the driver of the graph service in the agent's
                             \* dependencies (context.deps.graphsvc): "none", "open"
                             \* or "closed"

store    == <<nodes, edges>>
source   == <<persons, properties, reordered>>
control  == <<pc, idx, visited>>
plocals  == <<children, spouses, countries, cities, residence_cities,
              residence_countries, birth_cities, birth_countries,
              death_cities, death_countries, countrycities>>
qlocals  == <<owners, prop_countries, prop_cities>>
observed == <<failed, issued, caught, faults, written>>
history  == <<mode, runs, prevMode, snap, files>>
exits    == <<finalizes, escaped>>
toolcall == <<tool, arg, records, raised, deps>>
racing   == <<proc>>
others   == <<tasks, chat, doc>>
direct   == <<svc, env, call, last, racing>>
command  == <<driver, source, control, plocals, qlocals, observed, history, exits>>
vars     == <<store, command, toolcall, direct, others>>

NoRows == [r \in {} |-> 0]

\* no chat session: no execution of main() yet (execs), nothing in
\* st.session_state (session: the service of agent_deps, 0 for none), no
\* service constructed (open: the services whose driver is open; cur: the one
\* of the execution under way), no prompt (input), no tool query made for it
\* (asked) and none ever made through a finalized service (onClosed)
NoChat == [at |-> "none", execs |-> 0, cur |-> 0, session |-> 0, open |-> {},
           input |-> FALSE, asked |-> 0, onClosed |-> FALSE]
\* no document under ingestion: entry the method that was called, docs the
\* crawled pages that have markdown, source the source of the document, n
\* chunks, i the index of the chunk the loop is at, clock the time in ticks,
\* stdout the encoding of sys.stdout, submitted the chunk indices handed to
\* add_episode in order, failed the chunks whose add_episode raised,
\* unprepared the chunks whose turn of the loop raised before add_episode was
\* called, unprinted the chunks whose episode was added and could not be
\* announced, errors and graph_errors the two local lists, episodes the
\* counter episodes_created, result the IngestionResult, raised what left
\* the method as an exception
NoResult == [chunks_created |-> 0, errors |-> <<>>]
NoDoc == [at |-> "none", entry |-> "none", docs |-> 0, source |-> "", n |-> 0,
          i |-> 0, clock |-> 0, stdout |-> "utf-8",
          submitted |-> <<>>, failed |-> {}, unprepared |-> {}, unprinted |-> {},
          errors |-> <<>>, graph_errors |-> <<>>, episodes |-> 0,
          result |-> NoResult, raised |-> "none"]

\* no service object has been handed out for direct calls
NoService == [backend |-> "none", graphiti |-> "none", indices |-> FALSE, shut |-> FALSE]
\* what a call hands back: None, a list or a dict with its items, or nothing
\* when it raised
Value(kind, items) == [kind |-> kind, items |-> items]
NoValue == Value("none", <<>>)
NoAnswer == [keys |-> <<>>, records |-> <<>>]

\* no task has been started on a Graphiti service
TaskIds == {1, 2}
NoTasks ==
    [at |-> [t \in TaskIds |-> "none"], kind |-> [t \in TaskIds |-> "none"],
     sent |-> [t \in TaskIds |-> 0], began |-> [t \in TaskIds |-> NoService],
     left |-> [t \in TaskIds |-> NoService], result |-> [t \in TaskIds |-> NoValue],
     own |-> [t \in TaskIds |-> 0], fault |-> [t \in TaskIds |-> "none"],
     events |-> [t \in TaskIds |-> <<>>],
     episode |-> [t \in TaskIds |-> "episode-1"], cur |-> 0, built |-> 0,
     early |-> FALSE, fell |-> FALSE, stale |-> FALSE]
NoCall == [op |-> "none", outcome |-> "none", result |-> NoValue, sent |-> 0, n |-> 0,
           fault |-> "none", prior |-> FALSE, answer |-> NoAnswer,
           events |-> <<>>, closed |-> FALSE]
NoLast == [op |-> "none", outcome |-> "none", svc |-> NoService, driver |-> "none",
           nodes |-> {}, edges |-> {}]

\* the runs of ingest() that share the store, neither of them started
RunIds == {1, 2}
FreshRuns ==
    [r \in RunIds |-> [at |-> 1, visited |-> {}, inflight |-> {}, log |-> <<>>,
                       failed |-> {}, done |-> FALSE, met |-> FALSE]]

\* NEO4J_URI, NEO4J_USER, NEO4J_PASSWORD (envvars.py 49-59)
Credentials == {"uri", "user", "password"}

EmptyPLocals ==
    /\ children = <<>> /\ spouses = <<>> /\ countries = {} /\ cities = {}
    /\ residence_cities = <<>> /\ residence_countries = <<>>
    /\ birth_cities = <<>> /\ birth_countries = <<>>
    /\ death_cities = <<>> /\ death_countries = <<>> /\ countrycities = <<>>

ResetPLocals ==
    /\ children' = <<>> /\ spouses' = <<>> /\ countries' = {} /\ cities' = {}
    /\ residence_cities' = <<>> /\ residence_countries' = <<>>
    /\ birth_cities' = <<>> /\ birth_countries' = <<>>
    /\ death_cities' = <<>> /\ death_countries' = <<>> /\ countrycities' = <<>>

ResetQLocals == owners' = <<>> /\ prop_countries' = <<>> /\ prop_cities' = <<>>

Init ==
    /\ nodes = StaleNodes /\ edges = StaleEdges
    /\ driver = "none"
    /\ persons \in SeqsUpTo(PersonPool, MaxPersons)
    /\ properties \in SeqsUpTo(PropertyPool, MaxProps)
    /\ pc = "idle" /\ idx = 1 /\ visited = {}
    /\ mode = "none" /\ runs = 0 /\ prevMode = "none"
    /\ snap = [nodes |-> {}, edges |-> {}]
    /\ files = {} /\ finalizes = 0 /\ escaped = FALSE
    /\ EmptyPLocals
    /\ owners = <<>> /\ prop_countries = <<>> /\ prop_cities = <<>>
    /\ failed = {} /\ issued = 0 /\ written = <<>> /\ caught = {} /\ faults = 0
    /\ tool = "none" /\ arg = "" /\ records = NoRows /\ raised = FALSE
    /\ deps = "none"
    /\ svc = NoService /\ env = Credentials /\ call = NoCall /\ last = NoLast
    /\ proc = FreshRuns /\ reordered = FALSE
    /\ tasks = NoTasks /\ chat = NoChat /\ doc = NoDoc

\* ------------------------------------------------ control of one run
\* the steps of ingest(), in program order
StepOrder ==
    <<"clear", "persons_load", "countries", "cities", "countrycities",
      "children", "spouses", "residence_cities", "residence_countries",
      "birth_cities", "birth_countries", "death_cities", "death_countries",
      "persons_verify", "props_load", "owners", "prop_countries",
      "prop_cities", "props_verify", "finalize", "done">>

NextPc(p) == StepOrder[(CHOOSE i \in 1..Len(StepOrder) : StepOrder[i] = p) + 1]

\* iterations of the loop at step p
WorkLen(p) ==
    CASE p = "persons_load"        -> Len(persons)
      [] p = "countries"           -> Cardinality(countries)
      [] p = "cities"              -> Cardinality(cities)
      [] p = "countrycities"       -> Len(countrycities)
      [] p = "children"            -> Len(FlattenLists(children))
      [] p = "spouses"             -> Len(FlattenLists(spouses))
      [] p = "residence_cities"    -> Len(residence_cities)
      [] p = "residence_countries" -> Len(residence_countries)
      [] p = "birth_cities"        -> Len(birth_cities)
      [] p = "birth_countries"     -> Len(birth_countries)
      [] p = "death_cities"        -> Len(death_cities)
      [] p = "death_countries"     -> Len(death_countries)
      [] p = "props_load"          -> Len(properties)
      [] p = "owners"              -> Len(owners)
      [] p = "prop_countries"      -> Len(prop_countries)
      [] p = "prop_cities"         -> Len(prop_cities)
      [] OTHER                     -> 1

\* a store error is injected at most MaxFaults times
MayFail == faults < MaxFaults

\* the log of the write statements with s issued: s joins the statements of
\* the loop over a set that is under way (visited holds what the loop has
\* been through), or comes after all that was issued
Logged(s) ==
    IF visited = {}
    THEN Append(written, {s})
    ELSE [written EXCEPT ![Len(written)] = @ \cup {s}]

\* variant: the first store error ends the writing, later statements are not issued
IssueUntilFailure(s) ==
    IF failed # {}
    THEN UNCHANGED <<store, observed>>
    ELSE /\ issued' = issued + 1
         /\ written' = Logged(s)
         /\ UNCHANGED caught
         /\ \/ /\ nodes' = ApplyStmt(s, nodes, edges).nodes
               /\ edges' = ApplyStmt(s, nodes, edges).edges
               /\ UNCHANGED <<failed, faults>>
            \/ /\ MayFail
               /\ UNCHANGED store
               /\ failed' = failed \cup {s}
               /\ faults' = faults + 1

\* try: await graph_svc.query(query, params) / except Exception: print(...)
\* Neo4jGraphService.query runs the statement in one managed transaction:
\* it either takes effect as a whole or raises and leaves the store as it was.
Issue(s) ==
    /\ issued' = issued + 1
    /\ written' = Logged(s)
    /\ UNCHANGED caught
    /\ \/ /\ nodes' = ApplyStmt(s, nodes, edges).nodes
          /\ edges' = ApplyStmt(s, nodes, edges).edges
          /\ UNCHANGED <<failed, faults>>
       \/ /\ MayFail
          /\ UNCHANGED store
          /\ failed' = failed \cup {s}
          /\ faults' = faults + 1

\* a command process starts: services are constructed (cli.py 23-24)
Begin(m, first, fs) ==
    /\ pc \in {"idle", "done"}
    /\ runs < MaxRuns
    /\ runs' = runs + 1
    /\ mode' = m
    /\ prevMode' = mode
    /\ snap' = [nodes |-> nodes, edges |-> edges]
    /\ files' = fs
    /\ driver' = "open"
    /\ pc' = first /\ idx' = 1 /\ visited' = {}
    /\ failed' = {} /\ issued' = 0 /\ written' = <<>> /\ caught' = {}
    /\ finalizes' = 0 /\ escaped' = FALSE
    /\ UNCHANGED <<store, source, others, plocals, qlocals, faults, toolcall, direct>>

\* ingest(): clear_graph, then the two phases
StartIngest == Begin("ingest", "clear", {})

\* _ingest_persons and _ingest_properties called on the store as it is
StartPhases == Begin("phases", "persons_load", {})

\* what visualize(query_name) finds on disk: queries/<name>.cypher,
\* parameters/<name>.json, a node_attrs file that loads, and in it a label
\* attribute for every label of the queried graph.  The files are looked at
\* in this order, so a later one matters only when the earlier ones are there.
FileCases ==
    { {}, {"query"}, {"query", "params"}, {"query", "params", "attrs"},
      {"query", "params", "attrs", "labels"} }

\* visualize(query_name): services are constructed (cli.py 628-629)
StartVisualize == \E fs \in FileCases : Begin("visualize", "v_paths", fs)

\* variant: the clear has no effect by the time the first write is issued
DeleteNothing == [nodes |-> nodes, edges |-> edges]

\* MATCH (n) DETACH DELETE n
DetachDeleteAll == [nodes |-> {}, edges |-> {}]

\* await graph_svc.clear_graph(): MATCH (n) DETACH DELETE n; an error is not
\* caught by clear_graph and lands in ingest's except, skipping both phases
ClearGraph ==
    /\ pc = "clear"
    /\ \/ /\ nodes' = DetachDeleteAll.nodes
          /\ edges' = DetachDeleteAll.edges
          /\ pc' = "persons_load"
          /\ UNCHANGED <<failed, caught, faults>>
       \/ /\ MayFail
          /\ UNCHANGED store
          /\ failed' = failed \cup {[op |-> "clear"]}
          /\ caught' = caught \cup {"clear"}
          /\ faults' = faults + 1
          /\ pc' = "finalize"
    /\ UNCHANGED <<driver, source, others, idx, visited, plocals, qlocals, issued, written, history, toolcall, exits, direct>>

\* a loop whose collection is empty is left without an iteration
LoopExit ==
    /\ pc \in {"persons_load", "countries", "cities", "countrycities",
               "children", "spouses", "residence_cities", "residence_countries",
               "birth_cities", "birth_countries", "death_cities",
               "death_countries", "props_load", "owners", "prop_countries",
               "prop_cities"}
    /\ WorkLen(pc) = 0
    /\ pc' = NextPc(pc)
    /\ UNCHANGED <<store, driver, source, others, idx, visited, plocals, qlocals,
                   observed, history, toolcall, exits, direct>>

\* one dict/list place added per non-sentinel city, keyed by the person's
\* country whatever its value (cli.py 115, 120, 125)
AddCity(cc, country, city) ==
    IF NotSentinel(city) THEN DictAddTo(cc, country, city) ELSE cc

\* variant: the values are kept in a list of pairs, one per record
PutIfAppending(d, key, v) == IF NotSentinel(v) THEN Append(d, <<key, v>>) ELSE d

\* if v and v != "n/a": d[key] = v
PutIf(d, key, v) == IF NotSentinel(v) THEN DictPut(d, key, v) ELSE d

\* one iteration of `for person_data in persons` (cli.py 90-202)
PersonsLoad ==
    /\ pc = "persons_load" /\ idx <= Len(persons)
    /\ IF ~CanBuildPerson(persons[idx])
       THEN \* Person(**person_data) raises: the except of line 439 ends the phase
            /\ caught' = caught \cup {"persons"}
            /\ pc' = "props_load" /\ idx' = 1
            /\ ResetPLocals
            /\ UNCHANGED <<store, failed, issued, written, faults>>
       ELSE LET person == Person(persons[idx]) IN
            /\ children' = DictPut(children, person.name, person.children)
            /\ spouses' = DictPut(spouses, person.name, person.spouses)
            /\ countries' = countries \cup
                  {c \in {person.residence_country, person.birth_country,
                          person.death_country} : NotSentinel(c)}
            /\ cities' = cities \cup
                  {c \in {person.residence_city, person.birth_city,
                          person.death_city} : NotSentinel(c)}
            /\ residence_countries' =
                  PutIf(residence_countries, person.name, person.residence_country)
            /\ birth_countries' =
                  PutIf(birth_countries, person.name, person.birth_country)
            /\ death_countries' =
                  PutIf(death_countries, person.name, person.death_country)
            /\ residence_cities' =
                  PutIf(residence_cities, person.name, person.residence_city)
            /\ birth_cities' = PutIf(birth_cities, person.name, person.birth_city)
            /\ death_cities' = PutIf(death_cities, person.name, person.death_city)
            /\ countrycities' =
                  AddCity(AddCity(AddCity(countrycities,
                      person.residence_country, person.residence_city),
                      person.birth_country, person.birth_city),
                      person.death_country, person.death_city)
            /\ Issue(UpsertStmt("Person", PersonParams(person)))
            /\ IF idx = Len(persons)
               THEN pc' = NextPc(pc) /\ idx' = 1
               ELSE pc' = pc /\ idx' = idx + 1
    /\ UNCHANGED <<driver, source, others, visited, qlocals, history, toolcall, exits, direct>>

\* one iteration of a `for x in <set>` loop issuing MERGE (c:label {name: x});
\* a Python set is visited in no particular order
SetLoop(step, S, label) ==
    /\ pc = step
    /\ \E x \in S \ visited :
          /\ Issue(NodeStmt(label, x))
          /\ IF visited \cup {x} = S
             THEN pc' = NextPc(step) /\ visited' = {}
             ELSE pc' = pc /\ visited' = visited \cup {x}
    /\ UNCHANGED <<driver, source, others, idx, plocals, qlocals, history, toolcall, exits, direct>>

\* cli.py 204-222
CountryNodes == SetLoop("countries", countries, "Country")
\* cli.py 224-242
CityNodes == SetLoop("cities", cities, "City")

\* one iteration of the inner loop of
\* `for country, cities_set in countrycities.items(): for city in cities_set`
CountryCities ==
    /\ pc = "countrycities" /\ idx <= Len(countrycities)
    /\ LET country == countrycities[idx][1]
           cs      == countrycities[idx][2]
       IN \E city \in cs \ visited :
            /\ Issue(EdgeStmt("Country", country, "City", city,
                              "HAS_CITY", "HAS_COUNTRY"))
            /\ IF visited \cup {city} # cs
               THEN pc' = pc /\ idx' = idx /\ visited' = visited \cup {city}
               ELSE /\ visited' = {}
                    /\ IF idx = Len(countrycities)
                       THEN pc' = NextPc(pc) /\ idx' = 1
                       ELSE pc' = pc /\ idx' = idx + 1
    /\ UNCHANGED <<driver, source, others, plocals, qlocals, history, toolcall, exits, direct>>

\* one iteration of a loop over the (key, value) pairs d of an ordered dict,
\* issuing MATCH (a:la {name: key}), (b:lb {name: value}) MERGE ...
PairLoop(step, d, la, lb, fwd, inv) ==
    /\ pc = step /\ idx <= Len(d)
    /\ Issue(EdgeStmt(la, d[idx][1], lb, d[idx][2], fwd, inv))
    /\ IF idx = Len(d)
       THEN pc' = NextPc(step) /\ idx' = 1
       ELSE pc' = pc /\ idx' = idx + 1
    /\ UNCHANGED <<driver, source, others, visited, plocals, qlocals, history, toolcall, exits, direct>>

\* cli.py 267-286
ParentOf == PairLoop("children", FlattenLists(children), "Person", "Person", "PARENT_OF", "")
\* cli.py 288-307
SpouseOf == PairLoop("spouses", FlattenLists(spouses), "Person", "Person", "SPOUSE_OF", "")
\* cli.py 309-327
ResidentOfCity == PairLoop("residence_cities", residence_cities, "Person", "City", "RESIDENT_OF", "")
\* variant: the residence country is looked up among the cities
ResidentOfCountryAmongCities == PairLoop("residence_countries", residence_countries, "Person", "City", "RESIDENT_OF", "")

\* cli.py 329-347
ResidentOfCountry == PairLoop("residence_countries", residence_countries, "Person", "Country", "RESIDENT_OF", "")
\* cli.py 349-367
BornInCity == PairLoop("birth_cities", birth_cities, "Person", "City", "BORN_IN", "")
\* cli.py 369-387
BornInCountry == PairLoop("birth_countries", birth_countries, "Person", "Country", "BORN_IN", "")
\* cli.py 389-407
DiedInCity == PairLoop("death_cities", death_cities, "Person", "City", "DIED_IN", "")
\* cli.py 409-427
DiedInCountry == PairLoop("death_countries", death_countries, "Person", "Country", "DIED_IN", "")

\* the closing read of a phase; it is not inside a statement-level try, so an
\* error lands in the phase's except.  Either way the phase function returns.
VerifyRead(step, what) ==
    /\ pc = step
    /\ pc' = NextPc(step) /\ idx' = 1
    /\ \/ UNCHANGED <<failed, caught, faults>>
       \/ /\ MayFail
          /\ failed' = failed \cup {[op |-> "read", label |-> what]}
          /\ caught' = caught \cup {what}
          /\ faults' = faults + 1
    /\ UNCHANGED <<store, driver, source, others, visited, issued, written, history, toolcall, exits, direct>>

\* cli.py 429-440
PersonsVerify ==
    /\ VerifyRead("persons_verify", "persons")
    /\ ResetPLocals
    /\ UNCHANGED qlocals

\* one iteration of `for prop_data in properties` (cli.py 475-547)
PropsLoad ==
    /\ pc = "props_load" /\ idx <= Len(properties)
    /\ IF ~CanBuildProperty(properties[idx])
       THEN \* Property(**prop_data) raises: the except of line 622 ends the phase
            /\ caught' = caught \cup {"properties"}
            /\ pc' = "finalize" /\ idx' = 1
            /\ ResetQLocals
            /\ UNCHANGED <<store, failed, issued, written, faults>>
       ELSE LET property == properties[idx] IN
            /\ owners' = PutIf(owners, property.name, property.owner)
            /\ prop_countries' = PutIf(prop_countries, property.name, property.country)
            /\ prop_cities' = PutIf(prop_cities, property.name, property.city)
            /\ Issue(UpsertStmt("Property", property))
            /\ IF idx = Len(properties)
               THEN pc' = NextPc(pc) /\ idx' = 1
               ELSE pc' = pc /\ idx' = idx + 1
    /\ UNCHANGED <<driver, source, others, visited, plocals, history, toolcall, exits, direct>>

\* variant: the statement has the first MERGE only
OwnedByOneWay == PairLoop("owners", owners, "Property", "Person", "OWNED_BY", "")

\* cli.py 549-568
OwnedBy == PairLoop("owners", owners, "Property", "Person", "OWNED_BY", "OWNS")
\* cli.py 570-589
LocatedInCountry == PairLoop("prop_countries", prop_countries, "Property", "Country", "LOCATED_IN", "HAS_PROPERTY")
\* cli.py 591-610
LocatedInCity == PairLoop("prop_cities", prop_cities, "Property", "City", "LOCATED_IN", "HAS_PROPERTY")

\* cli.py 612-623
PropsVerify ==
    /\ VerifyRead("props_verify", "properties")
    /\ ResetQLocals
    /\ UNCHANGED plocals

\* variant: the early returns leave the function without passing the finally
VisualizePathsBareReturn ==
    /\ pc = "v_paths"
    /\ pc' = IF "query" \notin files \/ "params" \notin files \/ driver = "none"
             THEN "done" ELSE "v_query"
    /\ UNCHANGED <<store, driver, source, others, idx, visited, plocals, qlocals,
                   observed, history, toolcall, exits, direct>>

\* visualize, up to the driver check (cli.py 632-652): a missing query or
\* parameter file, or a falsy driver, is reported and the function returns
\* from inside the try, so the finally clause runs
VisualizePaths ==
    /\ pc = "v_paths"
    /\ pc' = IF "query" \notin files \/ "params" \notin files \/ driver = "none"
             THEN "finalize" ELSE "v_query"
    /\ UNCHANGED <<store, driver, source, others, idx, visited, plocals, qlocals,
                   observed, history, toolcall, exits, direct>>

\* visualize, the rest of the try (cli.py 654-671): the three files are read,
\* the query is run on the exposed driver and the graph is drawn; whatever
\* raises lands in the except of line 673
VisualizeQuery ==
    /\ pc = "v_query"
    /\ pc' = "finalize"
    /\ IF "attrs" \notin files
       THEN /\ caught' = caught \cup {"visualize"}
            /\ UNCHANGED <<failed, faults>>
       ELSE \/ /\ caught' = IF "labels" \in files THEN caught
                                                  ELSE caught \cup {"visualize"}
               /\ UNCHANGED <<failed, faults>>
            \/ /\ MayFail
               /\ failed' = failed \cup {[op |-> "read", label |-> "visualize"]}
               /\ caught' = caught \cup {"visualize"}
               /\ faults' = faults + 1
    /\ UNCHANGED <<store, driver, source, others, idx, visited, plocals, qlocals, issued, written,
                   history, toolcall, exits, direct>>

\* finally: cfg_svc.finalize(); await graph_svc.finalize() -> driver.close().
\* The call is not inside a try: an error of driver.close() leaves the command.
Finalize ==
    /\ pc = "finalize"
    /\ finalizes' = finalizes + 1
    /\ \/ /\ driver' = "closed"
          /\ UNCHANGED <<escaped, failed, faults>>
       \/ /\ MayFail
          /\ escaped' = TRUE
          /\ failed' = failed \cup {[op |-> "close"]}
          /\ faults' = faults + 1
          /\ UNCHANGED driver
    /\ pc' = "done"
    /\ UNCHANGED <<store, source, others, idx, visited, plocals, qlocals, issued, written, caught,
                   history, toolcall, direct>>

Next ==
    \/ StartIngest \/ StartPhases \/ StartVisualize \/ ClearGraph \/ LoopExit
    \/ VisualizePaths \/ VisualizeQuery
    \/ PersonsLoad \/ CountryNodes \/ CityNodes \/ CountryCities
    \/ ParentOf \/ SpouseOf
    \/ ResidentOfCity \/ ResidentOfCountry \/ BornInCity \/ BornInCountry
    \/ DiedInCity \/ DiedInCountry \/ PersonsVerify
    \/ PropsLoad \/ OwnedBy \/ LocatedInCountry \/ LocatedInCity \/ PropsVerify
    \/ Finalize

Spec == Init /\ [][Next]_vars

\* ---------------------------------------------------- traversal tools
\* LIMIT 100 of every retrieve_* query
RowLimit == 100

\* stores the tools are run on: Person nodes with any PARENT_OF edges
QPersons == {"A", "B", "C"}
MaxParentEdges == 4
CrowdSize == 101

ParentEdges == {e \in edges : e.type = "PARENT_OF"}
IsPerson(ref) == \E n \in nodes : n.label = "Person" /\ Ref(n) = ref

\* MATCH (p:Person {name: $person})-[:PARENT_OF]->(c:Person): one match per edge
ChildMatches(person) ==
    {e \in ParentEdges :
        /\ e.src.label = "Person" /\ e.src.name = person
        /\ IsPerson(e.src) /\ IsPerson(e.dst)}

\* MATCH (p:Person {name: $person})-[:PARENT_OF]->(:Person)-[:PARENT_OF]->(gc:Person):
\* the two relationships of one pattern are distinct
GrandChildMatches(person) ==
    {ee \in ParentEdges \X ParentEdges :
        /\ ee[1] # ee[2]
        /\ ee[1].src.label = "Person" /\ ee[1].src.name = person
        /\ ee[1].dst = ee[2].src
        /\ IsPerson(ee[1].src) /\ IsPerson(ee[1].dst) /\ IsPerson(ee[2].dst)}

\* variant: only the direct step is followed (PARENT_OF*1..1)
TrailsDirectOnly(from, used) ==
    {<<e>> : e \in {x \in ParentEdges : x.src = from /\ x \notin used}}

\* -[:PARENT_OF*1..]->: every path from `from` of one or more PARENT_OF
\* relationships, none of them used twice
RECURSIVE Trails(_, _)
Trails(from, used) ==
    UNION {{<<e>>} \cup {<<e>> \o t : t \in Trails(e.dst, used \cup {e})}
            : e \in {x \in ParentEdges : x.src = from /\ x \notin used}}

\* MATCH (p:Person {name: $person})-[:PARENT_OF*1..]->(descendant:Person)
InheritorMatches(person) ==
    UNION {{t \in Trails(Ref(p), {}) : IsPerson(t[Len(t)].dst)}
            : p \in Match(nodes, "Person", person)}

\* the rows of the hits H, each hit a <<match, RETURNed row>> pair, as a bag
Rows(H) ==
    [r \in {h[2] : h \in H} |-> Cardinality({h \in H : h[2] = r})]

RECURSIVE BagTotal(_)
BagTotal(B) ==
    IF DOMAIN B = {} THEN 0
    ELSE LET r == CHOOSE x \in DOMAIN B : TRUE
         IN B[r] + BagTotal([x \in DOMAIN B \ {r} |-> B[x]])

\* every way of keeping n of the rows of B that are in D, `most` of them in all
RECURSIVE SubBagsOver(_, _, _, _)
SubBagsOver(B, D, n, most) ==
    IF D = {} THEN (IF n = 0 THEN {NoRows} ELSE {})
    ELSE LET r  == CHOOSE x \in D : TRUE
             lo == IF n > most - B[r] THEN n - (most - B[r]) ELSE 0
             hi == IF B[r] < n THEN B[r] ELSE n
         IN UNION {{IF c = 0 THEN b ELSE b @@ (r :> c)
                        : b \in SubBagsOver(B, D \ {r}, n - c, most - B[r])}
                     : c \in lo..hi}

SubBags(B, n) == SubBagsOver(B, DOMAIN B, n, BagTotal(B))

\* variant: the LIMIT clause is missing from the query
Unlimited(H, n) == {Rows(H)}

\* LIMIT n: all rows when there are no more than n, else some n of them,
\* whichever the store produces first
Limited(H, n) ==
    IF Cardinality(H) <= n THEN {Rows(H)} ELSE SubBags(Rows(H), n)

\* a retrieve_* tool run through a graph service whose driver is handle:
\* records = [] ; try: records = await query(...) except: print;
\* return [{...} for r in records].  Results: the record lists the query can
\* yield.  A driver that is closed refuses the query, which the tool catches
\* like a store error: nothing reaches the store and no row is returned.
RetrieveVia(handle, name, a, Results) ==
    /\ handle # "none"
    /\ tool' = name /\ arg' = a
    /\ IF handle = "open"
       THEN \/ \E B \in Results : records' = B /\ raised' = FALSE
            \/ records' = NoRows /\ raised' = TRUE
       ELSE records' = NoRows /\ raised' = TRUE
    /\ UNCHANGED <<deps, store, command, direct, others>>

\* tool calls of the agent followed in one behaviour: a call reads the store
\* only and leaves nothing a later call reads
MaxRetrieves == 1
Retrieved == IF tool = "none" THEN 0 ELSE 1

\* a retrieve_* tool of the agent, run through context.deps.graphsvc
Retrieve(name, a, Results) ==
    /\ Retrieved < MaxRetrieves
    /\ RetrieveVia(deps, name, a, Results)

QArgs == QPersons \cup {"Nobody", "Farm", "Lebanon", "Beirut"}

\* MATCH (p:label) [WHERE p.f = v] RETURN p.<attributes>: one hit per node
NodeHits(label, f, v) ==
    {<<n, n.props>> : n \in {m \in nodes :
        /\ m.label = label
        /\ f = "" \/ (f \in DOMAIN m.props /\ m.props[f] = v)}}

\* MATCH (x:label {name: $name})-[r]-() RETURN x.name, type(r) AS relationship, r:
\* one hit per relationship at a matched node, whichever way it points.  The
\* record holds r as (start node data, type, end node data), the data of a node
\* that the query does not return being empty.  The row's details are dict(r),
\* the record under its column names "v.name", "relationship" and "r", v
\* being the variable the query gives the node.
AdjacentHits(v, label, name) ==
    {<<e, [name |-> name, relationship |-> e.type,
           details |-> ((v \o ".name") :> name) @@ ("relationship" :> e.type)
                          @@ ("r" :> <<{}, e.type, {}>>)]>> :
        e \in {x \in edges : \E n \in Match(nodes, label, name) :
                                x.src = Ref(n) \/ x.dst = Ref(n)}}

\* agent.py 53-109
RetrievePersons ==
    Retrieve("retrieve_persons", "", Limited(NodeHits("Person", "", ""), RowLimit))

\* agent.py 111-161
RetrieveProperties ==
    Retrieve("retrieve_properties", "", Limited(NodeHits("Property", "", ""), RowLimit))

\* agent.py 163-200
RetrieveCountries ==
    Retrieve("retrieve_countries", "", Limited(NodeHits("Country", "", ""), RowLimit))

\* agent.py 202-239
RetrieveCities ==
    Retrieve("retrieve_cities", "", Limited(NodeHits("City", "", ""), RowLimit))

\* agent.py 241-297
RetrievePropertiesInCountry ==
    \E country \in QArgs :
        Retrieve("retrieve_properties_in_country", country,
                 Limited(NodeHits("Property", "country", country), RowLimit))

\* MATCH (p:Property) WHERE p.city = $city RETURN ... LIMIT 100: the results
\* the store may give
PropertiesInCity(city) == Limited(NodeHits("Property", "city", city), RowLimit)

\* agent.py 299-352
RetrievePropertiesInCity ==
    \E city \in QArgs :
        Retrieve("retrieve_properties_in_city", city, PropertiesInCity(city))

\* agent.py 407-468: LIMIT 1
RetrievePersonDetails ==
    \E person \in QArgs :
        Retrieve("retrieve_person_details", person,
                 Limited(NodeHits("Person", "name", person), 1))

\* agent.py 470-511
RetrievePersonRelationships ==
    \E person \in QArgs :
        Retrieve("retrieve_person_relationships", person,
                 Limited(AdjacentHits("p", "Person", person), RowLimit))

\* agent.py 513-553
RetrievePersonSpouses ==
    \E person \in QArgs :
        Retrieve("retrieve_person_spouses", person,
                 Limited({<<e, [spouse_name |-> e.dst.name, person_name |-> e.src.name]>>
                            : e \in {x \in edges :
                                /\ x.type = "SPOUSE_OF"
                                /\ x.src.label = "Person" /\ x.src.name = person
                                /\ IsPerson(x.src) /\ IsPerson(x.dst)}},
                         RowLimit))

\* agent.py 555-595
RetrievePersonChildren ==
    \E person \in QArgs :
        Retrieve("retrieve_person_children", person,
                 Limited({<<e, [child_name |-> e.dst.name, parent_name |-> e.src.name]>>
                            : e \in ChildMatches(person)}, RowLimit))

\* agent.py 597-637
RetrievePersonGrandChildren ==
    \E person \in QArgs :
        Retrieve("retrieve_person_grand_children", person,
                 Limited({<<ee, [grandchild_name |-> ee[2].dst.name,
                                 grandparent_name |-> ee[1].src.name]>>
                            : ee \in GrandChildMatches(person)}, RowLimit))

\* agent.py 639-678
RetrievePersonInheritors ==
    \E person \in QArgs :
        Retrieve("retrieve_person_inheritors", person,
                 Limited({<<t, [inheritor_name |-> t[Len(t)].dst.name,
                                root_ancestor |-> t[1].src.name]>>
                            : t \in InheritorMatches(person)}, RowLimit))

\* agent.py 680-731: the query carries no LIMIT clause
RetrievePropertyDetails ==
    \E property \in QArgs :
        Retrieve("retrieve_property_details", property,
                 {Rows(NodeHits("Property", "name", property))})

\* agent.py 786-827
RetrievePropertyRelationships ==
    \E property \in QArgs :
        Retrieve("retrieve_property_relationships", property,
                 Limited(AdjacentHits("p", "Property", property), RowLimit))

\* agent.py 829-873: the property's relationships, when its country is the one asked
RetrieveByPropertyNCountry ==
    \E property \in QArgs, country \in QArgs :
        Retrieve("retrieve_by_property_n_country", property,
                 Limited({h \in AdjacentHits("p", "Property", property) :
                            \E n \in Match(nodes, "Property", property) :
                                /\ n.props.country = country
                                /\ (h[1].src = Ref(n) \/ h[1].dst = Ref(n))},
                         RowLimit))

\* agent.py 875-916
RetrieveByCountry ==
    \E country \in QArgs :
        Retrieve("retrieve_by_country", country,
                 Limited(AdjacentHits("c", "Country", country), RowLimit))

\* agent.py 918-959
RetrieveByCity ==
    \E city \in QArgs :
        Retrieve("retrieve_by_city", city,
                 Limited(AdjacentHits("c", "City", city), RowLimit))

\* the agent's service (initialize_agent_params) on a store of Person nodes
QPersonNodes ==
    {[label |-> "Person", k |-> 1,
      props |-> PersonParams(Person(PersonData([name |-> n])))] : n \in QPersons}

PersonEdge(type, a, b) ==
    [type |-> type,
     src |-> [label |-> "Person", name |-> a, k |-> 1],
     dst |-> [label |-> "Person", name |-> b, k |-> 1], k |-> 1]

\* the persons with up to MaxParentEdges PARENT_OF edges and one marriage
SparseStores ==
    {[nodes |-> QPersonNodes,
      edges |-> {PersonEdge("PARENT_OF", ab[1], ab[2]) : ab \in rel}
                \cup {PersonEdge("SPOUSE_OF", "A", "B")}]
        : rel \in {r \in SUBSET (QPersons \X QPersons) : Cardinality(r) <= MaxParentEdges}}

\* every person PARENT_OF every person, itself included
DenseStore ==
    [nodes |-> QPersonNodes,
     edges |-> {PersonEdge("PARENT_OF", ab[1], ab[2]) : ab \in QPersons \X QPersons}]

\* a store not built by the ingestion: CrowdSize Property nodes that share
\* one name, each located in the same country and city
CrowdStore ==
    LET farm(i) == [label |-> "Property", name |-> "Farm", k |-> i]
        lebanon == [label |-> "Country", name |-> "Lebanon", k |-> 1]
        beirut  == [label |-> "City", name |-> "Beirut", k |-> 1]
    IN [nodes |-> {[label |-> "Property", k |-> i,
                    props |-> PropertyData([name |-> "Farm", country |-> "Lebanon",
                                            city |-> "Beirut"])] : i \in 1..CrowdSize}
                  \cup {[label |-> "Country", k |-> 1, props |-> [name |-> "Lebanon"]],
                        [label |-> "City", k |-> 1, props |-> [name |-> "Beirut"]]},
        edges |-> {[type |-> "LOCATED_IN", src |-> farm(i), dst |-> lebanon, k |-> 1]
                        : i \in 1..CrowdSize}
                  \cup {[type |-> "LOCATED_IN", src |-> farm(i), dst |-> beirut, k |-> 1]
                        : i \in 1..CrowdSize}]

QueryStores == SparseStores \cup {DenseStore, CrowdStore}

InitQuery ==
    /\ \E st \in QueryStores : nodes = st.nodes /\ edges = st.edges
    /\ driver = "open"
    /\ persons = <<>> /\ properties = <<>>
    /\ pc = "idle" /\ idx = 1 /\ visited = {}
    /\ mode = "none" /\ runs = 0 /\ prevMode = "none"
    /\ snap = [nodes |-> {}, edges |-> {}]
    /\ files = {} /\ finalizes = 0 /\ escaped = FALSE
    /\ EmptyPLocals
    /\ owners = <<>> /\ prop_countries = <<>> /\ prop_cities = <<>>
    /\ failed = {} /\ issued = 0 /\ written = <<>> /\ caught = {} /\ faults = 0
    /\ tool = "none" /\ arg = "" /\ records = NoRows /\ raised = FALSE
    /\ deps \in {"open", "closed"}
    /\ svc = NoService /\ env = Credentials /\ call = NoCall /\ last = NoLast
    /\ proc = FreshRuns /\ reordered = FALSE
    /\ tasks = NoTasks /\ chat = NoChat /\ doc = NoDoc

NextQuery ==
    \/ RetrievePersons \/ RetrieveProperties \/ RetrieveCountries \/ RetrieveCities
    \/ RetrievePropertiesInCountry \/ RetrievePropertiesInCity
    \/ RetrievePersonDetails \/ RetrievePersonRelationships \/ RetrievePersonSpouses
    \/ RetrievePersonChildren
    \/ RetrievePersonGrandChildren
    \/ RetrievePersonInheritors
    \/ RetrievePropertyDetails \/ RetrievePropertyRelationships
    \/ RetrieveByPropertyNCountry \/ RetrieveByCountry \/ RetrieveByCity

SpecQuery == InitQuery /\ [][NextQuery]_vars


\* ------------------------------------- the services, method by method
\* The methods as one caller sees them that awaits each call before it makes
\* the next, as ingest, visualize and the document ingestion do.  A method of
\* the Neo4j service is taken from its call to its return; a method of the
\* Graphiti service is taken await by await, by the steps that two tasks
\* running methods at the same time interleave in SpecTasks.
MaxCalls == 4

\* the statements handed to query(): two writes and a read
QueryPool ==
    { NodeStmt("Country", "Peru"),
      EdgeStmt("Person", "Omar", "Country", "Egypt", "BORN_IN", ""),
      [op |-> "match", label |-> "Person", cols |-> <<"name", "residence_city">>],
      [op |-> "match", label |-> "Country", cols |-> <<"name">>] }

Perms(S) == {f \in [1..Cardinality(S) -> S] : \A i, j \in DOMAIN f : f[i] = f[j] => i = j}

\* the store's answer to a statement: column keys and positional records.
\* MATCH (n:label) RETURN n.<col>, ... answers the records of the label's nodes
\* in any order; MERGE (c:label {name: $name}) RETURN c (cli.py 206-210,
\* 226-230) and the upsert, which ends in RETURN p (cli.py 170, 521), answer
\* one record per node the MERGE bound, holding the node's attributes as they
\* are after the statement; the edge statements return nothing.
Answers(s) ==
    CASE s.op = "match" ->
            {[keys |-> [j \in DOMAIN s.cols |-> "n." \o s.cols[j]],
              records |-> [i \in DOMAIN f |->
                             [j \in DOMAIN s.cols |-> f[i].props[s.cols[j]]]]]
               : f \in Perms({n \in nodes : n.label = s.label})}
      [] s.op \in {"node", "upsert"} ->
            {[keys |-> <<IF s.op = "node" THEN "c" ELSE "p">>,
              records |-> [i \in DOMAIN f |-> <<f[i].props>>]]
               : f \in Perms(Match(ApplyStmt(s, nodes, edges).nodes, s.label,
                                   IF s.op = "node" THEN s.name ELSE s.props.name))}
      [] OTHER -> {NoAnswer}

\* record_dict = {key: record.data()[key] for key in record.data()} for each
\* record of result.records (neo4j.py 83-87)
RecordDicts(ans) ==
    [i \in DOMAIN ans.records |->
        [key \in {ans.keys[j] : j \in DOMAIN ans.keys} |->
            ans.records[i][CHOOSE j \in DOMAIN ans.keys : ans.keys[j] = key]]]

\* the methods of the Graphiti service that call the client after _initialize
ClientMethods ==
    {"search", "search_aux", "add_episode", "add_episode_aux", "clear_graph",
     "get_related_entities", "get_entity_timeline", "get_graph_statistics"}

\* the bookkeeping of one method call
CalledWith(o, out, res, s, f, ans, ev) ==
    /\ call.n < MaxCalls
    /\ call' = [op |-> o, outcome |-> out, result |-> res, sent |-> s,
                n |-> call.n + 1, fault |-> f,
                prior |-> call.prior \/ (call.outcome = "returned" /\ call.op # "construct"),
                answer |-> ans,
                events |-> ev,
                closed |-> call.closed
                             \/ (o \in {"close", "finalize"} /\ out = "returned")]
    /\ last' = [op |-> call.op, outcome |-> call.outcome, svc |-> svc,
                driver |-> driver, nodes |-> nodes, edges |-> edges]

Called(o, out, res, s, f, ans) == CalledWith(o, out, res, s, f, ans, <<>>)

Untouched == UNCHANGED <<source, others, control, plocals, qlocals, observed, history, exits, toolcall, env, racing>>

\* Neo4jGraphService(cfg_svc): GraphDatabase.driver(uri, auth=(user, password))
\* rejects an empty URI; user and password are not looked at until a
\* connection is made (neo4j.py 18-23)
ConstructNeo4j ==
    /\ svc.backend = "none" /\ call.op = "none"
    /\ IF "uri" \in env
       THEN /\ svc' = [svc EXCEPT !.backend = "neo4j"]
            /\ driver' = "open"
            /\ Called("construct", "returned", NoValue, 0, "none", NoAnswer)
       ELSE /\ UNCHANGED <<svc, driver>>
            /\ Called("construct", "raised", NoValue, 0, "config", NoAnswer)
    /\ UNCHANGED store /\ Untouched

\* GraphitiGraphService(cfg_svc): stores the config service, graphiti = None
\* (graphiti.py 18-20)
ConstructGraphiti ==
    /\ svc.backend = "none" /\ call.op = "none"
    /\ svc' = [backend |-> "graphiti", graphiti |-> "none", indices |-> FALSE,
               shut |-> FALSE]
    /\ Called("construct", "returned", NoValue, 0, "none", NoAnswer)
    /\ UNCHANGED <<store, driver>> /\ Untouched

\* variant: a store error is caught and reported as an empty result
Neo4jQuerySwallowing ==
    /\ svc.backend = "neo4j"
    /\ \E s \in QueryPool :
        \/ /\ driver = "open"
           /\ \E ans \in Answers(s) :
                /\ nodes' = IF s.op = "match" THEN nodes ELSE ApplyStmt(s, nodes, edges).nodes
                /\ edges' = IF s.op = "match" THEN edges ELSE ApplyStmt(s, nodes, edges).edges
                /\ Called("query", "returned", Value("list", RecordDicts(ans)), 1, "none", ans)
        \/ /\ UNCHANGED store
           /\ Called("query", "returned", Value("list", <<>>),
                     IF driver = "open" THEN 1 ELSE 0, "store", NoAnswer)
    /\ UNCHANGED <<svc, driver>> /\ Untouched

\* Neo4jGraphService.query (neo4j.py 65-89): driver.execute_query in one managed
\* transaction, then one dict per record; nothing is caught.  A closed driver
\* refuses the statement.
Neo4jQuery ==
    /\ svc.backend = "neo4j"
    /\ \E s \in QueryPool :
        \/ /\ driver = "open"
           /\ \E ans \in Answers(s) :
                /\ nodes' = IF s.op = "match" THEN nodes ELSE ApplyStmt(s, nodes, edges).nodes
                /\ edges' = IF s.op = "match" THEN edges ELSE ApplyStmt(s, nodes, edges).edges
                /\ Called("query", "returned", Value("list", RecordDicts(ans)), 1, "none", ans)
        \/ /\ UNCHANGED store
           /\ Called("query", "raised", NoValue,
                     IF driver = "open" THEN 1 ELSE 0, "store", NoAnswer)
    /\ UNCHANGED <<svc, driver>> /\ Untouched

\* Neo4jGraphService.clear_graph (neo4j.py 145-157): nothing is caught
Neo4jClearGraph ==
    /\ svc.backend = "neo4j"
    /\ \/ /\ driver = "open"
          /\ nodes' = DetachDeleteAll.nodes /\ edges' = DetachDeleteAll.edges
          /\ Called("clear_graph", "returned", Value("None", <<>>), 1, "none", NoAnswer)
       \/ /\ UNCHANGED store
          /\ Called("clear_graph", "raised", NoValue,
                    IF driver = "open" THEN 1 ELSE 0, "store", NoAnswer)
    /\ UNCHANGED <<svc, driver>> /\ Untouched

\* Neo4jGraphService.close / finalize (neo4j.py 159-169): driver.close(), which
\* does nothing on a driver already closed
Neo4jClose(o) ==
    /\ svc.backend = "neo4j"
    /\ \/ /\ driver' = "closed"
          /\ Called(o, "returned", Value("None", <<>>), 0, "none", NoAnswer)
       \/ /\ driver = "open"
          /\ UNCHANGED driver
          /\ Called(o, "raised", NoValue, 0, "store", NoAnswer)
    /\ UNCHANGED <<store, svc>> /\ Untouched

\* Neo4jGraphService.expose_driver (neo4j.py 25-27): return self.driver, the
\* driver object made by the constructor
Neo4jExposeDriver ==
    /\ svc.backend = "neo4j"
    /\ Called("expose_driver", "returned", Value("handle", <<>>), 0, "none", NoAnswer)
    /\ UNCHANGED <<store, svc, driver>> /\ Untouched

\* the methods Neo4jGraphService only stubs, and what each returns
Neo4jStubs ==
    { <<"add_episode", "None">>, <<"add_episode_aux", "None">>,
      <<"search", "list">>, <<"search_aux", "list">>,
      <<"get_related_entities", "dict">>, <<"get_entity_timeline", "list">>,
      <<"get_graph_statistics", "dict">> }

\* neo4j.py 29-63, 91-143
Neo4jStub ==
    /\ svc.backend = "neo4j"
    /\ \E m \in Neo4jStubs : Called(m[1], "returned", Value(m[2], <<>>), 0, "none", NoAnswer)
    /\ UNCHANGED <<store, svc, driver>> /\ Untouched

\* what the client's search yields: the results found, each with its fact and
\* uuid and, when the result has them, the times it holds from and to and the
\* node it comes from ("" for an attribute that is None)
MaxFacts == 1
\* the times of the results, earliest first, as the texts str() makes of them
Times == <<"2020-01-01", "2021-01-01">>
FactPool ==
    { [fact |-> "Omar lives in Cairo", uuid |-> "u1"],
      [fact |-> "Omar lives in Cairo", uuid |-> "u1", valid_at |-> "",
       invalid_at |-> "", source_node_uuid |-> "n1"],
      [fact |-> "Omar moved to Giza", uuid |-> "u2", valid_at |-> Times[1],
       invalid_at |-> Times[2], source_node_uuid |-> "n1"],
      [fact |-> "Omar died in Giza", uuid |-> "u3", valid_at |-> Times[2],
       invalid_at |-> "", source_node_uuid |-> ""] }
Found == UNION {[1..n -> FactPool] : n \in 0..MaxFacts}

\* str(result.f) if hasattr(result, f) and result.f else None
StrOrNone(result, f) ==
    IF f \in DOMAIN result /\ result[f] # "" THEN result[f] ELSE Value("None", <<>>)

\* the dict search and search_aux make of one result (graphiti.py 128-137,
\* 167-176)
FactDict(result) ==
    [fact |-> result.fact, uuid |-> result.uuid,
     valid_at |-> StrOrNone(result, "valid_at"),
     invalid_at |-> StrOrNone(result, "invalid_at"),
     source_node_uuid |-> StrOrNone(result, "source_node_uuid")]

\* the list of dicts returned for the results rs found
Facts(rs) == [i \in DOMAIN rs |-> FactDict(rs[i])]

\* the entity asked about
Entities == {"Omar"}

\* the entry get_related_entities makes of one result (graphiti.py 209-213)
RelatedFact(result) ==
    [fact |-> result.fact, uuid |-> result.uuid,
     valid_at |-> StrOrNone(result, "valid_at")]

\* the entry get_entity_timeline makes of one result (graphiti.py 249-254)
TimelineEntry(result) ==
    [fact |-> result.fact, uuid |-> result.uuid,
     valid_at |-> StrOrNone(result, "valid_at"),
     invalid_at |-> StrOrNone(result, "invalid_at")]

\* x.get('valid_at') or '' for the entry of a result, as a place in the
\* order of strings: '' first, for an entry whose valid_at is None
TimeKey(result) ==
    IF "valid_at" \in DOMAIN result /\ result.valid_at # ""
    THEN CHOOSE k \in DOMAIN Times : Times[k] = result.valid_at
    ELSE 0

\* the entries of the results rs after timeline.sort(key=..., reverse=True):
\* latest first, entries of one key in the order they had
SortedTimeline(rs) ==
    LET Before(i, j) == \/ TimeKey(rs[i]) > TimeKey(rs[j])
                        \/ TimeKey(rs[i]) = TimeKey(rs[j]) /\ i < j
        order == CHOOSE f \in [DOMAIN rs -> DOMAIN rs] :
                    /\ \A i, j \in DOMAIN rs : i # j => f[i] # f[j]
                    /\ \A i, j \in DOMAIN rs : i < j => Before(f[i], f[j])
    IN [i \in DOMAIN rs |-> TimelineEntry(rs[order[i]])]

\* ------------------- the methods of GraphitiGraphService, await by await
\* A method of the Graphiti service is run by a task of the event loop and
\* takes one step from one await that waits for the store to the next: the
\* awaits of build_indices_and_constraints, of the client call and of the
\* client's close().  An await that does not wait (of _initialize with the
\* client assigned, of close() without a client) lies inside a step.  Between
\* two steps of a method another task can take steps of its own method.
TaskKinds ==
    {"search", "search_aux", "add_episode", "add_episode_aux", "clear_graph",
     "get_related_entities", "get_entity_timeline", "get_graph_statistics",
     "close", "finalize", "expose_driver", "query"}

TasksUntouched == UNCHANGED <<command, toolcall, env, call, last, racing, chat, doc>>

\* the method of task t ends on the service s: it returns res, or raises
TaskReturned(tk, t, res, s) ==
    [tk EXCEPT !.at[t] = "returned", !.result[t] = res, !.left[t] = s]
TaskRaised(tk, t, s) == [tk EXCEPT !.at[t] = "raised", !.left[t] = s]
\* something failed under the method of task t: the initialization ("init"),
\* a request to the store ("store"), or the client was gone ("client")
TaskFault(tk, t, f) == [tk EXCEPT !.fault[t] = f]

\* the statistics reported when the test search fails with an exception of
\* text e (graphiti.py 279-283)
NoStatistics(e) == Value("dict", [graphiti_initialized |-> FALSE, error |-> e])
\* str(e) of a search that fails in the store, and of the AttributeError for
\* self.graphiti.search when self.graphiti is None
SearchFailed == "search failed"
NoClientSearch == "'NoneType' object has no attribute 'search'"

\* what the method of kind k returns when the client's call answered with
\* the results rs (graphiti.py 48, 127-137, 166-176, 219-223, 259, 271-275, 292)
TaskResult(k, rs) ==
    CASE k \in {"search", "search_aux"} -> Value("list", Facts(rs))
      [] k = "get_related_entities" ->
            Value("dict", [central_entity |-> "Omar",
                           related_facts |-> [i \in DOMAIN rs |-> RelatedFact(rs[i])],
                           search_method |-> "graphiti_semantic_search"])
      [] k = "get_entity_timeline" -> Value("list", SortedTimeline(rs))
      [] k = "get_graph_statistics" ->
            Value("dict", [graphiti_initialized |-> TRUE,
                           sample_search_results |-> Len(rs),
                           note |-> "Detailed statistics require direct Neo4j access"])
      [] OTHER -> Value("None", <<>>)

\* the results a client call of the method of kind k can answer with
TaskFound(k) ==
    IF k \in {"add_episode", "add_episode_aux", "clear_graph"} THEN {<<>>} ELSE Found

\* the fallback of clear_graph from where close() is over (graphiti.py
\* 299-302): self.graphiti = None, then _initialize, which constructs and
\* assigns a client and awaits build_indices_and_constraints, or fails to
\* construct one
TaskReinitialize(t, tk) ==
    \/ /\ "uri" \in env
       /\ svc' = [svc EXCEPT !.graphiti = "client", !.indices = FALSE, !.shut = FALSE]
       /\ tasks' = [tk EXCEPT !.at[t] = "rebuilding", !.sent[t] = @ + 1,
                              !.own[t] = tk.built + 1, !.cur = tk.built + 1,
                              !.built = @ + 1, !.fell = TRUE]
    \/ /\ svc' = [svc EXCEPT !.graphiti = "none", !.indices = FALSE, !.shut = FALSE]
       /\ tasks' = TaskRaised([tk EXCEPT !.cur = 0, !.fell = TRUE], t,
                              [svc EXCEPT !.graphiti = "none", !.indices = FALSE,
                                          !.shut = FALSE])

\* the method of task t, _initialize behind it, comes to its client call
\* with the service being s and the task record tk.  With a client the call
\* is sent and awaited, whether or not the indices of the client are built
\* and whether or not close() has been called on it.  Without one (another
\* task has closed it) the attribute access on None raises: search,
\* search_aux and get_graph_statistics catch that, clear_graph falls back on
\* close(), which has nothing to close, and a new client; the other methods
\* raise.
TaskProceed(t, tk, s) ==
    LET k == tasks.kind[t]
        gone == TaskFault(tk, t, "client")
    IN
    IF s.graphiti # "none"
    THEN /\ svc' = s
         /\ tasks' = [tk EXCEPT !.at[t] = "calling", !.sent[t] = @ + 1,
                                !.early = @ \/ ~s.indices,
                                !.stale = @ \/ s.shut]
    ELSE CASE k \in {"search", "search_aux"} ->
                /\ svc' = s
                /\ tasks' = TaskReturned(gone, t, Value("list", <<>>), s)
           [] k = "get_graph_statistics" ->
                /\ svc' = s
                /\ tasks' = TaskReturned(gone, t, NoStatistics(NoClientSearch), s)
           [] k = "clear_graph" -> TaskReinitialize(t, gone)
           [] OTHER ->
                /\ svc' = s
                /\ tasks' = TaskRaised(gone, t, s)

\* a method that calls the client starts with `await self._initialize()`
\* (graphiti.py 316-364) and runs to its first await that waits: with the
\* client assigned _initialize returns at once and the method goes on to its
\* client call; else the client is constructed and assigned, with no await on
\* the way, and build_indices_and_constraints is awaited; a construction that
\* fails (an empty URI, a bad client configuration) is raised
TaskEnter(t) ==
    /\ tasks.at[t] = "ready"
    /\ LET tk == [tasks EXCEPT !.began[t] = svc] IN
       IF svc.graphiti # "none"
       THEN TaskProceed(t, tk, svc)
       ELSE \/ /\ "uri" \in env
               /\ svc' = [svc EXCEPT !.graphiti = "client", !.shut = FALSE]
               /\ tasks' = [tk EXCEPT !.at[t] = "building", !.sent[t] = @ + 1,
                                      !.own[t] = tasks.built + 1,
                                      !.cur = tasks.built + 1,
                                      !.built = @ + 1]
            \/ /\ UNCHANGED svc
               /\ tasks' = TaskRaised(TaskFault(tk, t, "init"), t, svc)
    /\ UNCHANGED store /\ TasksUntouched

\* build_indices_and_constraints is over (graphiti.py 355), the indices of
\* the service being built when the client they were built through is still
\* the one assigned: the method goes on to its client call, the fallback of
\* clear_graph is done; or it has failed, which is raised with the client left
\* where it is
TaskIndices(t) ==
    /\ tasks.at[t] \in {"building", "rebuilding"}
    /\ \/ LET s  == IF tasks.own[t] = tasks.cur THEN [svc EXCEPT !.indices = TRUE] ELSE svc
              tk == [tasks EXCEPT !.events[t] = Append(@, "indices")]
          IN IF tasks.at[t] = "rebuilding"
             THEN /\ svc' = s
                  /\ tasks' = TaskReturned(tk, t, Value("None", <<>>), s)
             ELSE TaskProceed(t, tk, s)
       \/ /\ UNCHANGED svc
          /\ tasks' = TaskRaised(IF tasks.at[t] = "building"
                                 THEN TaskFault(tasks, t, "init") ELSE tasks, t, svc)
    /\ UNCHANGED store /\ TasksUntouched

\* the client call is over: search / search_, add_episode, clear_data.  A
\* failure is caught by search, search_aux (graphiti.py 139-141, 178-180) and
\* get_graph_statistics (279-283); clear_graph falls back on close(), which
\* calls the client's close() when a client is assigned, and a new client
\* (294-302); the other methods raise
TaskAnswer(t) ==
    /\ tasks.at[t] = "calling"
    /\ LET k == tasks.kind[t]
           failing == TaskFault(tasks, t, "store")
       IN
       \/ /\ \E rs \in TaskFound(k) :
                tasks' = TaskReturned(IF k = "clear_graph"
                                      THEN [tasks EXCEPT !.events[t] = Append(@, "clear")]
                                      ELSE tasks,
                                      t, TaskResult(k, rs), svc)
          /\ UNCHANGED svc
          /\ nodes' = CASE k = "clear_graph" -> DetachDeleteAll.nodes
                         [] k \in {"add_episode", "add_episode_aux"} ->
                                EpisodeNode(nodes, tasks.episode[t])
                         [] OTHER -> nodes
          /\ edges' = IF k = "clear_graph" THEN DetachDeleteAll.edges ELSE edges
       \/ /\ UNCHANGED store
          /\ CASE k \in {"search", "search_aux"} ->
                    /\ tasks' = TaskReturned(failing, t, Value("list", <<>>), svc)
                    /\ UNCHANGED svc
               [] k = "get_graph_statistics" ->
                    /\ tasks' = TaskReturned(failing, t, NoStatistics(SearchFailed), svc)
                    /\ UNCHANGED svc
               [] k = "clear_graph" ->
                    IF svc.graphiti = "none"
                    THEN TaskReinitialize(t, failing)
                    ELSE /\ tasks' = [failing EXCEPT !.at[t] = "falling"]
                         /\ svc' = [svc EXCEPT !.shut = TRUE]
               [] OTHER ->
                    /\ tasks' = TaskRaised(failing, t, svc)
                    /\ UNCHANGED svc
    /\ TasksUntouched

\* the client's close() is over (graphiti.py 305-310): close and finalize set
\* self.graphiti to None, whatever it holds by now, and return; the fallback
\* of clear_graph goes on to a new client; a close() that failed is raised,
\* the client staying assigned
TaskClosed(t) ==
    /\ tasks.at[t] \in {"closing", "falling"}
    /\ \/ IF tasks.at[t] = "falling"
          THEN TaskReinitialize(t, tasks)
          ELSE /\ svc' = [svc EXCEPT !.graphiti = "none", !.indices = FALSE, !.shut = FALSE]
               /\ tasks' = TaskReturned([tasks EXCEPT !.cur = 0], t, Value("None", <<>>),
                                        [svc EXCEPT !.graphiti = "none", !.indices = FALSE,
                                                    !.shut = FALSE])
       \/ /\ UNCHANGED svc
          /\ tasks' = TaskRaised(TaskFault(tasks, t, "store"), t, svc)
    /\ UNCHANGED store /\ TasksUntouched

\* GraphitiGraphService.expose_driver (graphiti.py 22-24): return
\* self.graphiti, which is None until a method has initialized the client;
\* there is no await in it
GraphitiExposeDriver(t) ==
    /\ tasks.kind[t] = "expose_driver" /\ tasks.at[t] = "ready"
    /\ tasks' = TaskReturned([tasks EXCEPT !.began[t] = svc], t,
                             Value(IF svc.graphiti = "none" THEN "None" ELSE "handle", <<>>),
                             svc)
    /\ UNCHANGED <<store, svc>> /\ TasksUntouched

\* variant: query initializes the client like the other methods
GraphitiQueryInitializing(t) ==
    /\ tasks.kind[t] = "query"
    /\ \/ /\ tasks.at[t] = "ready"
          /\ LET tk == [tasks EXCEPT !.began[t] = svc] IN
             IF svc.graphiti # "none"
             THEN /\ tasks' = TaskReturned(tk, t, Value("list", <<>>), svc)
                  /\ UNCHANGED svc
             ELSE \/ /\ "uri" \in env
                     /\ svc' = [svc EXCEPT !.graphiti = "client", !.shut = FALSE]
                     /\ tasks' = [tk EXCEPT !.at[t] = "building", !.sent[t] = @ + 1,
                                            !.own[t] = tasks.built + 1,
                                            !.cur = tasks.built + 1,
                                            !.built = @ + 1]
                  \/ /\ UNCHANGED svc
                     /\ tasks' = TaskRaised(TaskFault(tk, t, "init"), t, svc)
       \/ /\ tasks.at[t] = "building"
          /\ \/ /\ svc' = [svc EXCEPT !.indices = TRUE]
                /\ tasks' = TaskReturned(tasks, t, Value("list", <<>>),
                                         [svc EXCEPT !.indices = TRUE])
             \/ /\ UNCHANGED svc
                /\ tasks' = TaskRaised(TaskFault(tasks, t, "init"), t, svc)
    /\ UNCHANGED store /\ TasksUntouched

\* GraphitiGraphService.query (graphiti.py 93-102): return [], with no await
\* and no _initialize
GraphitiQuery(t) ==
    /\ tasks.kind[t] = "query" /\ tasks.at[t] = "ready"
    /\ tasks' = TaskReturned([tasks EXCEPT !.began[t] = svc], t, Value("list", <<>>), svc)
    /\ UNCHANGED <<store, svc>> /\ TasksUntouched

\* GraphitiGraphService.search / search_aux (graphiti.py 104-180): _initialize
\* is awaited before the try; the client's search is awaited inside it, and
\* what it raises is answered with []
GraphitiSearch(t) ==
    /\ tasks.kind[t] \in {"search", "search_aux"}
    /\ \/ TaskEnter(t)
       \/ TaskIndices(t)
       \/ TaskAnswer(t)

\* GraphitiGraphService.add_episode / add_episode_aux (graphiti.py 26-91):
\* _initialize, then the client's add_episode; nothing is caught; the episode
\* becomes a node of the store
GraphitiAddEpisode(t) ==
    /\ tasks.kind[t] \in {"add_episode", "add_episode_aux"}
    /\ \/ TaskEnter(t)
       \/ TaskIndices(t)
       \/ TaskAnswer(t)

\* GraphitiGraphService.get_related_entities (graphiti.py 182-223):
\* _initialize and the client's search, neither inside a try; the dict names
\* the entity, the facts found and the search method
GraphitiRelatedEntities(t) ==
    /\ tasks.kind[t] = "get_related_entities"
    /\ \/ TaskEnter(t)
       \/ TaskIndices(t)
       \/ TaskAnswer(t)

\* GraphitiGraphService.get_entity_timeline (graphiti.py 225-259): _initialize
\* and the client's search, neither inside a try; the entries are sorted by
\* valid_at, latest first
GraphitiEntityTimeline(t) ==
    /\ tasks.kind[t] = "get_entity_timeline"
    /\ \/ TaskEnter(t)
       \/ TaskIndices(t)
       \/ TaskAnswer(t)

\* GraphitiGraphService.get_graph_statistics (graphiti.py 261-283):
\* _initialize before the try; a test search inside it, whose failure is
\* reported in the dict returned
GraphitiGraphStatistics(t) ==
    /\ tasks.kind[t] = "get_graph_statistics"
    /\ \/ TaskEnter(t)
       \/ TaskIndices(t)
       \/ TaskAnswer(t)

\* GraphitiGraphService.clear_graph (graphiti.py 285-303): _initialize before
\* the try; clear_data inside it; on its failure close(), graphiti = None and
\* _initialize again, each of them awaited and none of them caught
GraphitiClearGraph(t) ==
    /\ tasks.kind[t] = "clear_graph"
    /\ \/ TaskEnter(t)
       \/ TaskIndices(t)
       \/ TaskAnswer(t)
       \/ TaskClosed(t)

\* variant: the client is closed whether or not there is one
GraphitiCloseUnguarded(t) ==
    /\ tasks.kind[t] \in {"close", "finalize"}
    /\ \/ /\ tasks.at[t] = "ready"
          /\ LET tk == [tasks EXCEPT !.began[t] = svc] IN
             IF svc.graphiti = "none"
             THEN /\ tasks' = TaskRaised(tk, t, svc)
                  /\ UNCHANGED svc
             ELSE /\ tasks' = [tk EXCEPT !.at[t] = "closing"]
                  /\ svc' = [svc EXCEPT !.shut = TRUE]
          /\ UNCHANGED store /\ TasksUntouched
       \/ TaskClosed(t)

\* GraphitiGraphService.close / finalize (graphiti.py 305-314):
\* if self.graphiti: await self.graphiti.close(); self.graphiti = None.
\* Without a client the method returns at once; with one the client's close()
\* is called and awaited, the client staying assigned until it is over
GraphitiClose(t) ==
    /\ tasks.kind[t] \in {"close", "finalize"}
    /\ \/ /\ tasks.at[t] = "ready"
          /\ LET tk == [tasks EXCEPT !.began[t] = svc] IN
             IF svc.graphiti = "none"
             THEN /\ tasks' = TaskReturned(tk, t, Value("None", <<>>), svc)
                  /\ UNCHANGED svc
             ELSE /\ tasks' = [tk EXCEPT !.at[t] = "closing"]
                  /\ svc' = [svc EXCEPT !.shut = TRUE]
          /\ UNCHANGED store /\ TasksUntouched
       \/ TaskClosed(t)


\* a caller that awaits each call before it makes the next, as ingest_graphrag
\* and the document ingestion do: it calls a method of the Graphiti service,
\* which task 1 runs
CallerCalls ==
    /\ svc.backend = "graphiti"
    /\ call.op # "pending" /\ call.n < MaxCalls
    /\ \E k \in TaskKinds :
          tasks' = [NoTasks EXCEPT !.at[1] = "ready", !.kind[1] = k]
    /\ last' = [op |-> call.op, outcome |-> call.outcome, svc |-> svc,
                driver |-> driver, nodes |-> nodes, edges |-> edges]
    /\ call' = [call EXCEPT !.op = "pending", !.outcome = "pending",
                            !.prior = @ \/ (call.outcome = "returned"
                                            /\ call.op # "construct")]
    /\ UNCHANGED <<store, svc, driver, chat, doc>>
    /\ UNCHANGED <<source, control, plocals, qlocals, observed, history, exits, toolcall,
                   env, racing>>

\* the method is over and the caller has its outcome
CallerResumes ==
    /\ call.op = "pending" /\ tasks.at[1] \in {"returned", "raised"}
    /\ call' = [op |-> tasks.kind[1], outcome |-> tasks.at[1],
                result |-> tasks.result[1], sent |-> tasks.sent[1],
                n |-> call.n + 1, fault |-> tasks.fault[1], prior |-> call.prior,
                answer |-> NoAnswer, events |-> tasks.events[1],
                closed |-> call.closed
                             \/ (tasks.kind[1] \in {"close", "finalize"}
                                 /\ tasks.at[1] = "returned")]
    /\ tasks' = NoTasks
    /\ UNCHANGED <<store, svc, driver, last, chat, doc>>
    /\ UNCHANGED <<source, control, plocals, qlocals, observed, history, exits, toolcall,
                   env, racing>>

InitService ==
    /\ nodes = StaleNodes /\ edges = StaleEdges
    /\ driver = "none"
    /\ persons = <<>> /\ properties = <<>>
    /\ pc = "idle" /\ idx = 1 /\ visited = {}
    /\ mode = "none" /\ runs = 0 /\ prevMode = "none"
    /\ snap = [nodes |-> {}, edges |-> {}]
    /\ files = {} /\ finalizes = 0 /\ escaped = FALSE
    /\ EmptyPLocals
    /\ owners = <<>> /\ prop_countries = <<>> /\ prop_cities = <<>>
    /\ failed = {} /\ issued = 0 /\ written = <<>> /\ caught = {} /\ faults = 0
    /\ tool = "none" /\ arg = "" /\ records = NoRows /\ raised = FALSE
    /\ deps = "none"
    /\ svc = NoService /\ env \in SUBSET Credentials /\ call = NoCall /\ last = NoLast
    /\ proc = FreshRuns /\ reordered = FALSE
    /\ tasks = NoTasks /\ chat = NoChat /\ doc = NoDoc

\* an agent tool run on the Neo4j service (agent.py 163-200)
ToolOnService ==
    /\ svc.backend = "neo4j"
    /\ RetrieveVia(driver, "retrieve_countries", "",
                   Limited(NodeHits("Country", "", ""), RowLimit))

NextService ==
    \/ ConstructNeo4j \/ ConstructGraphiti
    \/ Neo4jQuery \/ Neo4jClearGraph
    \/ Neo4jClose("close") \/ Neo4jClose("finalize")
    \/ Neo4jStub \/ Neo4jExposeDriver
    \/ ToolOnService
    \/ CallerCalls
    \/ GraphitiExposeDriver(1) \/ GraphitiQuery(1)
    \/ GraphitiSearch(1) \/ GraphitiAddEpisode(1)
    \/ GraphitiRelatedEntities(1) \/ GraphitiEntityTimeline(1)
    \/ GraphitiGraphStatistics(1)
    \/ GraphitiClearGraph(1) \/ GraphitiClose(1)
    \/ CallerResumes

SpecService == InitService /\ [][NextService]_vars

\* ====================================================================
\* Two methods of one Graphiti service as asyncio tasks
\* ====================================================================
\* The two tasks take the steps of their methods in any order the event
\* loop can give them.

\* two methods are called on a service, new or with its client initialized,
\* before either has run
InitTasks ==
    /\ nodes = StaleNodes /\ edges = StaleEdges
    /\ driver = "none"
    /\ persons = <<>> /\ properties = <<>>
    /\ pc = "idle" /\ idx = 1 /\ visited = {}
    /\ mode = "none" /\ runs = 0 /\ prevMode = "none"
    /\ snap = [nodes |-> {}, edges |-> {}]
    /\ files = {} /\ finalizes = 0 /\ escaped = FALSE
    /\ EmptyPLocals
    /\ owners = <<>> /\ prop_countries = <<>> /\ prop_cities = <<>>
    /\ failed = {} /\ issued = 0 /\ written = <<>> /\ caught = {} /\ faults = 0
    /\ tool = "none" /\ arg = "" /\ records = NoRows /\ raised = FALSE
    /\ deps = "none"
    /\ svc \in {[NoService EXCEPT !.backend = "graphiti"],
                [NoService EXCEPT !.backend = "graphiti", !.graphiti = "client",
                                  !.indices = TRUE]}
    /\ env \in {Credentials, Credentials \ {"uri"}}
    /\ call = NoCall /\ last = NoLast
    /\ proc = FreshRuns /\ reordered = FALSE
    /\ \E ks \in [TaskIds -> TaskKinds] :
          tasks = [NoTasks EXCEPT !.at = [t \in TaskIds |-> "ready"], !.kind = ks]
    /\ chat = NoChat /\ doc = NoDoc

NextTasks ==
    \/ \E t \in TaskIds : GraphitiExposeDriver(t)
    \/ \E t \in TaskIds : GraphitiQuery(t)
    \/ \E t \in TaskIds : GraphitiSearch(t)
    \/ \E t \in TaskIds : GraphitiAddEpisode(t)
    \/ \E t \in TaskIds : GraphitiRelatedEntities(t)
    \/ \E t \in TaskIds : GraphitiEntityTimeline(t)
    \/ \E t \in TaskIds : GraphitiGraphStatistics(t)
    \/ \E t \in TaskIds : GraphitiClearGraph(t)
    \/ \E t \in TaskIds : GraphitiClose(t)

SpecTasks == InitTasks /\ [][NextTasks]_vars

\* ====================================================================
\* The chat application: one execution of main() per page load or prompt
\* ====================================================================
MaxExecutions == 3     \* executions of main() in one session
MaxToolCalls == 2      \* tool queries the agent makes for one prompt

ChatUntouched == UNCHANGED <<store, command, toolcall, direct, tasks, doc>>

\* main() up to its try block and the session-state set-up in it (app.py
\* 70-85): initialize_agent_params constructs a new Neo4jGraphService
\* (agent.py 35-46), which raises without a URI; agent_deps is put into
\* st.session_state only when it is not there.  The first execution is the
\* page load, which has no prompt.
ChatMain ==
    /\ chat.at = "idle" /\ chat.execs < MaxExecutions
    /\ \E prompt \in (IF chat.execs = 0 THEN {FALSE} ELSE BOOLEAN) :
          IF "uri" \in env
          THEN chat' = [chat EXCEPT !.at = "body", !.execs = @ + 1,
                                    !.cur = chat.execs + 1,
                                    !.open = @ \cup {chat.execs + 1},
                                    !.session = IF @ = 0 THEN chat.execs + 1 ELSE @,
                                    !.input = prompt, !.asked = 0]
          ELSE chat' = [chat EXCEPT !.execs = @ + 1]
    /\ ChatUntouched

\* the agent answers the prompt and calls a tool, whose query goes through
\* st.session_state.agent_deps (app.py 43-46, 105-109); on a driver that is
\* closed the query raises and the tool returns no rows
ChatTool ==
    /\ chat.at = "body" /\ chat.input /\ chat.asked < MaxToolCalls
    /\ chat' = [chat EXCEPT !.asked = @ + 1,
                            !.onClosed = @ \/ chat.session \notin chat.open]
    /\ ChatUntouched

\* the try block is left, by its end or by an exception that is reported
\* (app.py 112-117)
ChatBodyEnds ==
    /\ chat.at = "body"
    /\ chat' = [chat EXCEPT !.at = "finally"]
    /\ ChatUntouched

\* finally: finalize_agent_params(agent_params) closes the driver of the
\* service constructed in this execution (app.py 118-120, agent.py 49-51,
\* neo4j.py 159-169), or the close raises
ChatFinally ==
    /\ chat.at = "finally"
    /\ \/ chat' = [chat EXCEPT !.at = "idle", !.open = @ \ {chat.cur}]
       \/ chat' = [chat EXCEPT !.at = "idle"]
    /\ ChatUntouched

InitChat ==
    /\ nodes = StaleNodes /\ edges = StaleEdges
    /\ driver = "none"
    /\ persons = <<>> /\ properties = <<>>
    /\ pc = "idle" /\ idx = 1 /\ visited = {}
    /\ mode = "none" /\ runs = 0 /\ prevMode = "none"
    /\ snap = [nodes |-> {}, edges |-> {}]
    /\ files = {} /\ finalizes = 0 /\ escaped = FALSE
    /\ EmptyPLocals
    /\ owners = <<>> /\ prop_countries = <<>> /\ prop_cities = <<>>
    /\ failed = {} /\ issued = 0 /\ written = <<>> /\ caught = {} /\ faults = 0
    /\ tool = "none" /\ arg = "" /\ records = NoRows /\ raised = FALSE
    /\ deps = "none"
    /\ svc = NoService /\ env \in SUBSET Credentials /\ call = NoCall /\ last = NoLast
    /\ proc = FreshRuns /\ reordered = FALSE
    /\ tasks = NoTasks /\ chat = [NoChat EXCEPT !.at = "idle"] /\ doc = NoDoc

NextChat == ChatMain \/ ChatTool \/ ChatBodyEnds \/ ChatFinally

SpecChat == InitChat /\ [][NextChat]_vars

\* ====================================================================
\* GraphRAGService: ingest_md_urls and _ingest_single_document
\* ====================================================================
MaxChunks == 3         \* chunks the chunker makes of one document
MaxDocs == 2           \* crawled pages that have markdown

\* the sources of the documents ingested
DocSources == {"source", "doc.md"}

DocUntouched == UNCHANGED <<command, toolcall, env, call, last, racing, chat>>

\* str(datetime.now().timestamp()) at tick t of the clock: the text of a float
Timestamp(t) == ToString(t) \o ".0"

\* the text of an error entry (graphrag.py 172) and the id of an episode
\* (graphrag.py 141) of the chunk of index i
ChunkError(i, e) == "Failed to add chunk " \o ToString(i) \o " to graph: " \o e
ChunkEpisode(src, i, t) == src \o "_" \o ToString(i) \o "_" \o Timestamp(t)

\* str(e) of what add_episode raises when f has failed under it, and of what
\* print raises for the check mark on a stdout that cannot encode it
RaisedText(f) == IF f = "init" THEN "init" ELSE "graph"
EncodeErrorText ==
    "'ascii' codec can't encode character '\\u2713' in position 0: ordinal not in range(128)"

\* an exception leaves the method that was called
DocRaised(e) == [doc EXCEPT !.at = "raised", !.raised = e]

\* the graph service is called: task 1 runs its method of kind k, add_episode
\* with the episode id
DocCalls(k, id) ==
    [NoTasks EXCEPT !.at[1] = "ready", !.kind[1] = k, !.episode[1] = id]

\* ingest_md_urls is called (graphrag.py 19-21) and awaits clear_graph of the
\* graph service
DocIngestMdUrls ==
    /\ doc.at = "start"
    /\ doc' = [doc EXCEPT !.at = "clearing", !.entry = "ingest_md_urls"]
    /\ tasks' = DocCalls("clear_graph", "")
    /\ UNCHANGED <<store, svc>>
    /\ DocUntouched

\* clear_graph is over (graphrag.py 21-25): when it returned, with the data
\* cleared or, after its fallback, with a new client and the data as it was,
\* the crawl is awaited; what it raised leaves ingest_md_urls
DocCleared ==
    /\ doc.at = "clearing" /\ tasks.at[1] \in {"returned", "raised"}
    /\ doc' = IF tasks.at[1] = "returned" THEN [doc EXCEPT !.at = "crawling"]
              ELSE DocRaised("clear_graph")
    /\ tasks' = NoTasks
    /\ UNCHANGED <<store, svc>>
    /\ DocUntouched

\* the crawl is over (graphrag.py 25-27): so many of its pages have markdown,
\* or it raised
DocCrawled ==
    /\ doc.at = "crawling"
    /\ \/ \E m \in 0..MaxDocs : doc' = [doc EXCEPT !.at = "inserting", !.docs = m]
       \/ doc' = DocRaised("crawl")
    /\ UNCHANGED <<store, svc, tasks>>
    /\ DocUntouched

\* the loop over the pages (graphrag.py 30-43): a page without markdown is
\* skipped; for the first page that has some, _ingest_single_document is
\* called with the markdown alone, which is a TypeError for the missing
\* title and content and leaves ingest_md_urls; without such a page the
\* empty list of results is returned
DocInsert ==
    /\ doc.at = "inserting"
    /\ doc' = IF doc.docs = 0 THEN [doc EXCEPT !.at = "returned"]
              ELSE DocRaised("TypeError")
    /\ UNCHANGED <<store, svc, tasks>>
    /\ DocUntouched

\* _ingest_single_document is called with source, title and content
\* (graphrag.py 89-115) and awaits the chunker
DocSingleDocument ==
    /\ doc.at = "start"
    /\ \E src \in DocSources :
          doc' = [doc EXCEPT !.at = "chunking", !.entry = "_ingest_single_document",
                             !.source = src]
    /\ UNCHANGED <<store, svc, tasks>>
    /\ DocUntouched

\* the document is chunked; without chunks the result is returned at once
\* with the one error "No chunks created", otherwise the two error lists
\* and the counter are set up and the loop starts at index 0
\* (graphrag.py 110-135); what the chunker raises leaves the method
DocChunked ==
    /\ doc.at = "chunking"
    /\ \/ \E n \in 0..MaxChunks :
             doc' = IF n = 0
                    THEN [doc EXCEPT !.at = "returned",
                                     !.result = [chunks_created |-> 0,
                                                 errors |-> <<"No chunks created">>]]
                    ELSE [doc EXCEPT !.at = "loop", !.n = n, !.i = 0,
                                     !.graph_errors = <<>>, !.errors = <<>>,
                                     !.episodes = 0]
       \/ doc' = DocRaised("chunk_document")
    /\ UNCHANGED <<store, svc, tasks>>
    /\ DocUntouched

\* a turn of the loop up to its await (graphrag.py 138-162): the episode id
\* is made of the source, the chunk's index and the time, which has moved
\* on, the content is prepared and add_episode of the graph service is
\* called with them; when making them raises, the message is appended to
\* errors and the loop continues with the next chunk, add_episode not being
\* called for this one
DocChunk ==
    /\ doc.at = "loop" /\ doc.i < doc.n
    /\ \/ /\ doc' = [doc EXCEPT !.at = "adding", !.clock = @ + 1,
                                !.submitted = Append(@, doc.i)]
          /\ tasks' = DocCalls("add_episode",
                               ChunkEpisode(doc.source, doc.i, doc.clock + 1))
       \/ /\ doc' = [doc EXCEPT !.i = @ + 1, !.clock = @ + 1,
                                !.unprepared = @ \cup {doc.i},
                                !.errors = Append(@, ChunkError(doc.i, "chunk"))]
          /\ UNCHANGED tasks
    /\ UNCHANGED <<store, svc>>
    /\ DocUntouched

\* add_episode is over (graphrag.py 150-176).  When it returned, the counter
\* grows and the episode is announced with a check mark: printed, the delay
\* asyncio.sleep(0.5) is awaited but after the last chunk; on a stdout that
\* cannot encode the mark print raises, the message of that is appended to
\* errors and the loop continues with the next chunk.  When add_episode
\* raised, its message is appended to errors and the loop continues with the
\* next chunk.
DocAdded ==
    /\ doc.at = "adding" /\ tasks.at[1] \in {"returned", "raised"}
    /\ doc' =
         IF tasks.at[1] = "raised"
         THEN [doc EXCEPT !.at = "loop", !.i = @ + 1,
                          !.failed = @ \cup {doc.i},
                          !.errors = Append(@, ChunkError(doc.i, RaisedText(tasks.fault[1])))]
         ELSE IF doc.stdout = "ascii"
         THEN [doc EXCEPT !.at = "loop", !.i = @ + 1, !.episodes = @ + 1,
                          !.unprinted = @ \cup {doc.i},
                          !.errors = Append(@, ChunkError(doc.i, EncodeErrorText))]
         ELSE IF doc.i < doc.n - 1
         THEN [doc EXCEPT !.at = "sleeping", !.episodes = @ + 1]
         ELSE [doc EXCEPT !.at = "loop", !.i = @ + 1, !.episodes = @ + 1]
    /\ tasks' = NoTasks
    /\ UNCHANGED <<store, svc>>
    /\ DocUntouched

\* the delay between two episodes is over (graphrag.py 168-169)
DocSlept ==
    /\ doc.at = "sleeping"
    /\ doc' = [doc EXCEPT !.at = "loop", !.i = @ + 1]
    /\ UNCHANGED <<store, svc, tasks>>
    /\ DocUntouched

\* after the last chunk the IngestionResult is returned with
\* chunks_created=len(chunks) and errors=graph_errors (graphrag.py 178-186)
DocReturn ==
    /\ doc.at = "loop" /\ doc.i = doc.n
    /\ doc' = [doc EXCEPT !.at = "returned",
                          !.result = [chunks_created |-> doc.n,
                                      errors |-> doc.graph_errors]]
    /\ UNCHANGED <<store, svc, tasks>>
    /\ DocUntouched

\* a GraphRAGService on a Graphiti service, new or with its client
\* initialized, and a store that holds a graph; nothing has been called
InitDoc ==
    /\ nodes = StaleNodes /\ edges = StaleEdges
    /\ driver = "none"
    /\ persons = <<>> /\ properties = <<>>
    /\ pc = "idle" /\ idx = 1 /\ visited = {}
    /\ mode = "none" /\ runs = 0 /\ prevMode = "none"
    /\ snap = [nodes |-> {}, edges |-> {}]
    /\ files = {} /\ finalizes = 0 /\ escaped = FALSE
    /\ EmptyPLocals
    /\ owners = <<>> /\ prop_countries = <<>> /\ prop_cities = <<>>
    /\ failed = {} /\ issued = 0 /\ written = <<>> /\ caught = {} /\ faults = 0
    /\ tool = "none" /\ arg = "" /\ records = NoRows /\ raised = FALSE
    /\ deps = "none"
    /\ svc \in {[NoService EXCEPT !.backend = "graphiti"],
                [NoService EXCEPT !.backend = "graphiti", !.graphiti = "client",
                                  !.indices = TRUE]}
    /\ env \in {Credentials, Credentials \ {"uri"}}
    /\ call = NoCall /\ last = NoLast
    /\ proc = FreshRuns /\ reordered = FALSE
    /\ tasks = NoTasks /\ chat = NoChat
    /\ \E out \in {"utf-8", "ascii"} : doc = [NoDoc EXCEPT !.at = "start", !.stdout = out]

NextDoc ==
    \/ DocIngestMdUrls \/ GraphitiClearGraph(1) \/ DocCleared
    \/ DocCrawled \/ DocInsert
    \/ DocSingleDocument \/ DocChunked \/ DocChunk
    \/ GraphitiAddEpisode(1) \/ DocAdded \/ DocSlept \/ DocReturn

SpecDoc == InitDoc /\ [][NextDoc]_vars

\* ====================================================================
\* Two runs of ingest() on one store, statement by statement
\* ====================================================================
MaxRaceRecords == 1     \* longest persons.json / properties.json of the two runs

\* the locals of _ingest_persons before the first record (cli.py 65-80)
NoLocals ==
    [children |-> <<>>, spouses |-> <<>>, countries |-> {}, cities |-> {},
     residence_cities |-> <<>>, residence_countries |-> <<>>,
     birth_cities |-> <<>>, birth_countries |-> <<>>,
     death_cities |-> <<>>, death_countries |-> <<>>, countrycities |-> <<>>]

\* the locals after one more record (cli.py 93-125)
AfterPerson(L, person) ==
    [children |-> DictPut(L.children, person.name, person.children),
     spouses |-> DictPut(L.spouses, person.name, person.spouses),
     countries |-> L.countries \cup
        {c \in {person.residence_country, person.birth_country,
                person.death_country} : NotSentinel(c)},
     cities |-> L.cities \cup
        {c \in {person.residence_city, person.birth_city,
                person.death_city} : NotSentinel(c)},
     residence_countries |->
        PutIf(L.residence_countries, person.name, person.residence_country),
     birth_countries |-> PutIf(L.birth_countries, person.name, person.birth_country),
     death_countries |-> PutIf(L.death_countries, person.name, person.death_country),
     residence_cities |-> PutIf(L.residence_cities, person.name, person.residence_city),
     birth_cities |-> PutIf(L.birth_cities, person.name, person.birth_city),
     death_cities |-> PutIf(L.death_cities, person.name, person.death_city),
     countrycities |->
        AddCity(AddCity(AddCity(L.countrycities,
            person.residence_country, person.residence_city),
            person.birth_country, person.birth_city),
            person.death_country, person.death_city)]

\* the locals after the first n records
RECURSIVE LocalsAfter(_)
LocalsAfter(n) ==
    IF n = 0 THEN NoLocals ELSE AfterPerson(LocalsAfter(n - 1), Person(persons[n]))

\* the records a load loop gets through: all of them, or those before the
\* first one its dataclass rejects (the phase's except ends the phase there)
RECURSIVE Buildable(_, _)
Buildable(recs, person) ==
    IF recs = <<>> THEN 0
    ELSE IF person /\ ~CanBuildPerson(Head(recs)) THEN 0
    ELSE IF ~person /\ ~CanBuildProperty(Head(recs)) THEN 0
    ELSE 1 + Buildable(Tail(recs), person)

\* a run's statements are kept as a sequence of groups: the statements of a
\* group are issued in any order (a loop over a Python set), the groups one
\* after the other
Pairs(d, la, lb, fwd, inv) ==
    [i \in DOMAIN d |-> {EdgeStmt(la, d[i][1], lb, d[i][2], fwd, inv)}]
NonEmpty(groups) == SelectSeq(groups, LAMBDA g : g # {})
ReadStmt(label) == [op |-> "read", label |-> label]
ClearStmt == [op |-> "clear"]

\* cli.py 90-202
PersonUpserts ==
    [i \in 1..Buildable(persons, TRUE) |->
        {UpsertStmt("Person", PersonParams(Person(persons[i])))}]

\* cli.py 204-242
PlaceNodes(L) ==
    << {NodeStmt("Country", c) : c \in L.countries},
       {NodeStmt("City", c) : c \in L.cities} >>

\* cli.py 244-264
PlacePairs(L) ==
    [i \in DOMAIN L.countrycities |->
        {EdgeStmt("Country", L.countrycities[i][1], "City", city, "HAS_CITY", "HAS_COUNTRY")
            : city \in L.countrycities[i][2]}]

\* cli.py 267-427
PersonEdges(L) ==
    Pairs(FlattenLists(L.children), "Person", "Person", "PARENT_OF", "")
    \o Pairs(FlattenLists(L.spouses), "Person", "Person", "SPOUSE_OF", "")
    \o Pairs(L.residence_cities, "Person", "City", "RESIDENT_OF", "")
    \o Pairs(L.residence_countries, "Person", "Country", "RESIDENT_OF", "")
    \o Pairs(L.birth_cities, "Person", "City", "BORN_IN", "")
    \o Pairs(L.birth_countries, "Person", "Country", "BORN_IN", "")
    \o Pairs(L.death_cities, "Person", "City", "DIED_IN", "")
    \o Pairs(L.death_countries, "Person", "Country", "DIED_IN", "")

\* variant: the countries are tied to their cities before either is upserted
PersonPhasePairingFirst ==
    IF Buildable(persons, TRUE) < Len(persons)
    THEN PersonUpserts
    ELSE LET L == LocalsAfter(Len(persons))
         IN PersonUpserts \o PlacePairs(L) \o PlaceNodes(L) \o PersonEdges(L)
            \o <<{ReadStmt("Person")}>>

\* _ingest_persons (cli.py 39-440)
PersonPhase ==
    IF Buildable(persons, TRUE) < Len(persons)
    THEN PersonUpserts
    ELSE LET L == LocalsAfter(Len(persons))
         IN PersonUpserts \o PlaceNodes(L) \o PlacePairs(L) \o PersonEdges(L)
            \o <<{ReadStmt("Person")}>>

\* the owners / countries / cities dict of _ingest_properties (cli.py 478-488)
RECURSIVE PropertyDict(_, _)
PropertyDict(n, f) ==
    IF n = 0 THEN <<>>
    ELSE PutIf(PropertyDict(n - 1, f), properties[n].name, properties[n][f])

\* _ingest_properties (cli.py 443-623)
PropertyPhase ==
    LET n == Buildable(properties, FALSE)
        upserts == [i \in 1..n |-> {UpsertStmt("Property", properties[i])}]
    IN IF n < Len(properties)
       THEN upserts
       ELSE upserts
            \o Pairs(PropertyDict(n, "owner"), "Property", "Person", "OWNED_BY", "OWNS")
            \o Pairs(PropertyDict(n, "country"), "Property", "Country",
                     "LOCATED_IN", "HAS_PROPERTY")
            \o Pairs(PropertyDict(n, "city"), "Property", "City",
                     "LOCATED_IN", "HAS_PROPERTY")
            \o <<{ReadStmt("Property")}>>

\* variant: the run does not clear the store
ProgramWithoutClear == NonEmpty(PersonPhase \o PropertyPhase)

\* ingest (cli.py 26-30): clear_graph, _ingest_persons, _ingest_properties
Program == NonEmpty(<<{ClearStmt}>> \o PersonPhase \o PropertyPhase)

\* what a statement makes of the graph g when the store executes it, in one
\* managed transaction (neo4j.py 75-79, 153-157)
EffectOn(s, g) ==
    CASE s.op = "clear" -> DetachDeleteAll
      [] s.op = "read"  -> g
      [] OTHER          -> ApplyStmt(s, g.nodes, g.edges)

\* what a statement does to the store
Effect(s) == EffectOn(s, [nodes |-> nodes, edges |-> edges])

\* the run moves past statement s of the group it is at
Advance(p, s) ==
    IF p.visited \cup {s} = Program[p.at]
    THEN [p EXCEPT !.at = p.at + 1, !.visited = {}]
    ELSE [p EXCEPT !.visited = p.visited \cup {s}]

RaceUntouched ==
    UNCHANGED <<driver, source, others, control, plocals, qlocals, observed, history, exits,
                toolcall, svc, env, call, last>>

\* variant: the statement is sent without waiting for the one before it
IssueStatementUnawaited(r) ==
    /\ ~proc[r].done /\ proc[r].at <= Len(Program)
    /\ \E s \in Program[proc[r].at] \ proc[r].visited :
          proc' = [proc EXCEPT ![r] = [Advance(proc[r], s) EXCEPT
                                          !.inflight = proc[r].inflight \cup {s}]]
    /\ UNCHANGED store /\ RaceUntouched

\* run r calls graph_svc.query / clear_graph with its next statement, which
\* it does when the call before has been awaited (neo4j.py 75-79, 153-157)
IssueStatement(r) ==
    /\ ~proc[r].done /\ proc[r].at <= Len(Program)
    /\ proc[r].inflight = {}
    /\ \E s \in Program[proc[r].at] \ proc[r].visited :
          proc' = [proc EXCEPT ![r] = [Advance(proc[r], s) EXCEPT
                                          !.inflight = proc[r].inflight \cup {s}]]
    /\ UNCHANGED store /\ RaceUntouched

\* a store error is injected at most MaxFaults times, and into a run that is
\* alone on the store, the other one being over
MayFailRun(r) ==
    /\ Cardinality(proc[1].failed) + Cardinality(proc[2].failed) < MaxFaults
    /\ \A q \in RunIds \ {r} : proc[q].done

\* run q has had its clear answered and is not over
UnderWay(q) == proc[q].log # <<>> /\ ~proc[q].done

\* the store executes a statement of run r and answers: the statement takes
\* effect as a whole, or fails and leaves the store as it was; a failed clear
\* lands in ingest's except and the run goes to its finally clause
CompleteStatement(r) ==
    /\ \E s \in proc[r].inflight :
          \/ /\ nodes' = Effect(s).nodes /\ edges' = Effect(s).edges
             /\ proc' = [proc EXCEPT ![r].inflight = @ \ {s},
                                     ![r].log = Append(@, s),
                                     ![r].met = @ \/ UnderWay(3 - r)]
          \/ /\ MayFailRun(r)
             /\ UNCHANGED store
             /\ proc' = [proc EXCEPT ![r].inflight = @ \ {s},
                                     ![r].log = Append(@, s),
                                     ![r].failed = @ \cup {s},
                                     ![r].at = IF s.op = "clear"
                                               THEN Len(Program) + 1 ELSE @,
                                     ![r].visited = IF s.op = "clear" THEN {} ELSE @]
    /\ RaceUntouched

\* finally: graph_svc.finalize() closes the run's own driver (cli.py 33-36)
EndRun(r) ==
    /\ ~proc[r].done /\ proc[r].at > Len(Program) /\ proc[r].inflight = {}
    /\ proc' = [proc EXCEPT ![r].done = TRUE]
    /\ UNCHANGED store /\ RaceUntouched

\* the records the two runs load: the residents of Lebanon, and Alice's properties
RacePersonPool == {r \in PersonPool : r.residence_country = "Lebanon"}
RacePropertyPool == {r \in PropertyPool : r.owner = "Alice"}

InitRace ==
    /\ nodes = StaleNodes /\ edges = StaleEdges
    /\ driver = "none"
    /\ persons \in SeqsUpTo(RacePersonPool, MaxRaceRecords)
    /\ properties \in SeqsUpTo(RacePropertyPool, MaxRaceRecords)
    /\ pc = "idle" /\ idx = 1 /\ visited = {}
    /\ mode = "none" /\ runs = 0 /\ prevMode = "none"
    /\ snap = [nodes |-> {}, edges |-> {}]
    /\ files = {} /\ finalizes = 0 /\ escaped = FALSE
    /\ EmptyPLocals
    /\ owners = <<>> /\ prop_countries = <<>> /\ prop_cities = <<>>
    /\ failed = {} /\ issued = 0 /\ written = <<>> /\ caught = {} /\ faults = 0
    /\ tool = "none" /\ arg = "" /\ records = NoRows /\ raised = FALSE
    /\ deps = "none"
    /\ svc = NoService /\ env = Credentials /\ call = NoCall /\ last = NoLast
    /\ proc = FreshRuns /\ reordered = FALSE
    /\ tasks = NoTasks /\ chat = NoChat /\ doc = NoDoc

NextRace ==
    \/ \E r \in RunIds : IssueStatement(r)
    \/ \E r \in RunIds : CompleteStatement(r)
    \/ \E r \in RunIds : EndRun(r)

SpecRace == InitRace /\ [][NextRace]_vars

\* ====================================================================
\* The agent's tools at work on the store of a running command
\* ====================================================================
\* retrieve_* tools are called, through a driver of their own, while or after
\* a command writes to the store
NextAsk == Next \/ NextQuery

\* the records of the command: one person with every place and relative
\* named, and Alice's properties; the store error that a behaviour may see
\* has occurred before
AskPersonPool ==
    { PersonData([name |-> "Bob", residence_country |-> "Lebanon",
                  residence_city |-> "Beirut", birth_country |-> "Syria",
                  birth_city |-> "Homs", death_country |-> "Syria",
                  death_city |-> "Aleppo", children |-> <<"Zed">>,
                  spouses |-> <<"Bob">>]) }

InitAsk ==
    /\ nodes = StaleNodes /\ edges = StaleEdges
    /\ driver = "none"
    /\ persons \in SeqsUpTo(AskPersonPool, MaxRaceRecords)
    /\ properties \in SeqsUpTo(RacePropertyPool, MaxRaceRecords)
    /\ pc = "idle" /\ idx = 1 /\ visited = {}
    /\ mode = "none" /\ runs = 0 /\ prevMode = "none"
    /\ snap = [nodes |-> {}, edges |-> {}]
    /\ files = {} /\ finalizes = 0 /\ escaped = FALSE
    /\ EmptyPLocals
    /\ owners = <<>> /\ prop_countries = <<>> /\ prop_cities = <<>>
    /\ failed = {} /\ issued = 0 /\ written = <<>> /\ caught = {} /\ faults = MaxFaults
    /\ tool = "none" /\ arg = "" /\ records = NoRows /\ raised = FALSE
    /\ deps = "open"
    /\ svc = NoService /\ env = Credentials /\ call = NoCall /\ last = NoLast
    /\ proc = FreshRuns /\ reordered = FALSE
    /\ tasks = NoTasks /\ chat = NoChat /\ doc = NoDoc

SpecAsk == InitAsk /\ [][NextAsk]_vars

\* ====================================================================
\* The commands before and after the source files are put in another order
\* ====================================================================
FileLen == 2     \* records per file where names are repeated or records reordered

\* the orders a file's records can be put in
Orders(recs) ==
    {[i \in DOMAIN recs |-> recs[f[i]]] : f \in Perms(DOMAIN recs)}

\* between two commands data/persons.json and data/properties.json are
\* rewritten with the same records in another order (read at cli.py 86-87,
\* 471-472)
Reorder ==
    /\ pc = "done" /\ ~reordered
    /\ persons' \in Orders(persons) /\ properties' \in Orders(properties)
    /\ <<persons', properties'>> # <<persons, properties>>
    /\ reordered' = TRUE
    /\ UNCHANGED <<store, driver, control, plocals, qlocals, observed, history,
                   exits, toolcall, direct, others>>

DistinctNames(recs) == \A i, j \in DOMAIN recs : recs[i].name = recs[j].name => i = j

\* FileLen person records and FileLen property records, the names distinct;
\* the store error that a behaviour may see has occurred before
ReorderPersonPool ==
    {r \in PersonPool : r.name = "Eve" \/ r.residence_country # "Lebanon"}
ReorderPropertyPool == {r \in PropertyPool : r.name \in {"Farm", "Shop"} /\ r.country # "Syria"}

InitReorder ==
    /\ nodes = StaleNodes /\ edges = StaleEdges
    /\ driver = "none"
    /\ persons \in {s \in [1..FileLen -> ReorderPersonPool] : DistinctNames(s)}
    /\ properties \in {s \in [1..FileLen -> ReorderPropertyPool] : DistinctNames(s)}
    /\ pc = "idle" /\ idx = 1 /\ visited = {}
    /\ mode = "none" /\ runs = 0 /\ prevMode = "none"
    /\ snap = [nodes |-> {}, edges |-> {}]
    /\ files = {} /\ finalizes = 0 /\ escaped = FALSE
    /\ EmptyPLocals
    /\ owners = <<>> /\ prop_countries = <<>> /\ prop_cities = <<>>
    /\ failed = {} /\ issued = 0 /\ written = <<>> /\ caught = {} /\ faults = MaxFaults
    /\ tool = "none" /\ arg = "" /\ records = NoRows /\ raised = FALSE
    /\ deps = "none"
    /\ svc = NoService /\ env = Credentials /\ call = NoCall /\ last = NoLast
    /\ proc = FreshRuns /\ reordered = FALSE
    /\ tasks = NoTasks /\ chat = NoChat /\ doc = NoDoc

NextReorder == Next \/ Reorder

SpecReorder == InitReorder /\ [][NextReorder]_vars

\* ====================================================================
\* The commands on source files that repeat a name
\* ====================================================================
\* FileLen person records out of those that name children, and FileLen records of the farm
RepeatPersonPool == {r \in PersonPool : "children" \in DOMAIN r}
RepeatPropertyPool == {r \in PropertyPool : r.name = "Farm"}

InitRepeat ==
    /\ nodes = StaleNodes /\ edges = StaleEdges
    /\ driver = "none"
    /\ persons \in [1..FileLen -> RepeatPersonPool]
    /\ properties \in [1..FileLen -> RepeatPropertyPool]
    /\ pc = "idle" /\ idx = 1 /\ visited = {}
    /\ mode = "none" /\ runs = 0 /\ prevMode = "none"
    /\ snap = [nodes |-> {}, edges |-> {}]
    /\ files = {} /\ finalizes = 0 /\ escaped = FALSE
    /\ EmptyPLocals
    /\ owners = <<>> /\ prop_countries = <<>> /\ prop_cities = <<>>
    /\ failed = {} /\ issued = 0 /\ written = <<>> /\ caught = {} /\ faults = 0
    /\ tool = "none" /\ arg = "" /\ records = NoRows /\ raised = FALSE
    /\ deps = "none"
    /\ svc = NoService /\ env = Credentials /\ call = NoCall /\ last = NoLast
    /\ proc = FreshRuns /\ reordered = FALSE
    /\ tasks = NoTasks /\ chat = NoChat /\ doc = NoDoc

SpecRepeat == InitRepeat /\ [][Next]_vars

\* ====================================================================
\* What the source records call for, stated on the records themselves
\* ====================================================================
AllValid ==
    /\ \A i \in 1..Len(persons) : CanBuildPerson(persons[i])
    /\ \A i \in 1..Len(properties) : CanBuildProperty(properties[i])

Sentinels == {"", "n/a"}
PlaceKinds == {"residence", "birth", "death"}
CountryOf(r, kind) == r[kind \o "_country"]
CityOf(r, kind) == r[kind \o "_city"]
KindEdge(kind) ==
    CASE kind = "residence" -> "RESIDENT_OF"
      [] kind = "birth" -> "BORN_IN"
      [] kind = "death" -> "DIED_IN"

NodeRef(label, name) == [label |-> label, name |-> name, k |-> 1]
Edge(type, la, a, lb, b) ==
    [type |-> type, src |-> NodeRef(la, a), dst |-> NodeRef(lb, b), k |-> 1]

\* the last record of a sequence that carries the name
LastNamed(recs, name) ==
    recs[CHOOSE i \in 1..Len(recs) :
            /\ recs[i].name = name
            /\ \A j \in (i+1)..Len(recs) : recs[j].name # name]

\* the value field f has in the last record named `name` where it is not a sentinel
HasValue(recs, name, f) ==
    \E i \in 1..Len(recs) : recs[i].name = name /\ recs[i][f] \notin Sentinels
LastValue(recs, name, f) ==
    recs[CHOOSE i \in 1..Len(recs) :
            /\ recs[i].name = name /\ recs[i][f] \notin Sentinels
            /\ \A j \in (i+1)..Len(recs) :
                  ~(recs[j].name = name /\ recs[j][f] \notin Sentinels)][f]

PersonNames == {persons[i].name : i \in 1..Len(persons)}
PropertyNames == {properties[i].name : i \in 1..Len(properties)}
CountryNames ==
    {CountryOf(persons[i], kind) : i \in 1..Len(persons), kind \in PlaceKinds}
        \ Sentinels
CityNames ==
    {CityOf(persons[i], kind) : i \in 1..Len(persons), kind \in PlaceKinds}
        \ Sentinels
Elems(seq) == {seq[i] : i \in 1..Len(seq)}

\* nodes and edges a run over all-valid records is to produce on an empty store
ExpectedNodes ==
    {[label |-> "Person", k |-> 1,
      props |-> PersonParams(Person(LastNamed(persons, n)))] : n \in PersonNames}
    \cup {[label |-> "Country", k |-> 1, props |-> [name |-> c]] : c \in CountryNames}
    \cup {[label |-> "City", k |-> 1, props |-> [name |-> c]] : c \in CityNames}
    \cup {[label |-> "Property", k |-> 1, props |-> LastNamed(properties, n)]
            : n \in PropertyNames}

ExpectedPersonEdges ==
    {Edge("PARENT_OF", "Person", n, "Person", c) :
        <<n, c>> \in {nc \in PersonNames \X PersonNames :
            nc[2] \in Elems(Person(LastNamed(persons, nc[1])).children)}}
    \cup {Edge("SPOUSE_OF", "Person", n, "Person", c) :
        <<n, c>> \in {nc \in PersonNames \X PersonNames :
            nc[2] \in Elems(Person(LastNamed(persons, nc[1])).spouses)}}
    \cup UNION {
        {Edge(KindEdge(kind), "Person", n, "City",
              LastValue(persons, n, kind \o "_city")) :
            n \in {m \in PersonNames : HasValue(persons, m, kind \o "_city")}}
        \cup
        {Edge(KindEdge(kind), "Person", n, "Country",
              LastValue(persons, n, kind \o "_country")) :
            n \in {m \in PersonNames : HasValue(persons, m, kind \o "_country")}}
        : kind \in PlaceKinds}

\* (country, city) pairings a record states with neither value a sentinel
StatedPairs ==
    {<<CountryOf(persons[i], kind), CityOf(persons[i], kind)>> :
        i \in 1..Len(persons), kind \in PlaceKinds}
    \cap ((CountryNames \ Sentinels) \X (CityNames \ Sentinels))

ExpectedPlaceEdges ==
    {Edge("HAS_CITY", "Country", cc[1], "City", cc[2]) : cc \in StatedPairs}
    \cup {Edge("HAS_COUNTRY", "City", cc[2], "Country", cc[1]) : cc \in StatedPairs}

\* a property is tied to an owner, country or city only where that node exists
PropertyTies(f, label, names, fwd, inv) ==
    LET tied == {n \in PropertyNames :
                    /\ HasValue(properties, n, f)
                    /\ LastValue(properties, n, f) \in names}
    IN {Edge(fwd, "Property", n, label, LastValue(properties, n, f)) : n \in tied}
       \cup {Edge(inv, label, LastValue(properties, n, f), "Property", n) : n \in tied}

ExpectedPropertyEdges ==
    PropertyTies("owner", "Person", PersonNames, "OWNED_BY", "OWNS")
    \cup PropertyTies("country", "Country", CountryNames, "LOCATED_IN", "HAS_PROPERTY")
    \cup PropertyTies("city", "City", CityNames, "LOCATED_IN", "HAS_PROPERTY")

ExpectedEdges ==
    ExpectedPersonEdges \cup ExpectedPlaceEdges \cup ExpectedPropertyEdges

\* a run that met no store error and no exception
CleanRun == failed = {} /\ caught = {}

\* ====================================================================
\* Properties
\* ====================================================================
RunEnded == pc = "done"

\* C1: running the pipeline again over the same records, either as a second
\* ingest() or as the two phases repeated without a clear, leaves exactly the
\* nodes and edges (hence the counts) the store held after the first run.
C1_Idempotent ==
    (RunEnded /\ runs >= 2 /\ faults = 0
        /\ \/ prevMode = "ingest" /\ mode \in {"ingest", "phases"}
           \/ prevMode = "phases" /\ mode = "phases")
    => (nodes = snap.nodes /\ edges = snap.edges)

C1_Witness ==
    /\ RunEnded /\ runs = 2 /\ faults = 0
    /\ prevMode = "ingest" /\ mode = "phases"
    /\ Len(persons) = 2 /\ Len(properties) = 1 /\ AllValid
    /\ Cardinality(edges) >= 6

\* C2: in every reachable state each (label, name) pair names at most one node,
\* also when the source repeats a name and after any number of runs.
C2_NodeUnique ==
    \A n1, n2 \in nodes :
        (n1.label = n2.label /\ n1.props.name = n2.props.name) => n1 = n2

C2_Witness ==
    /\ RunEnded /\ runs = 2 /\ mode = "phases"
    /\ Len(persons) = 2 /\ persons[1].name = persons[2].name /\ AllValid
    /\ persons[1] # persons[2]
    /\ \E n \in nodes : n.label = "Person" /\ n.props.name = persons[1].name
    /\ \E n \in nodes : n.label = "City"

EdgeTypes ==
    {"PARENT_OF", "SPOUSE_OF", "RESIDENT_OF", "BORN_IN", "DIED_IN", "OWNED_BY",
     "OWNS", "LOCATED_IN", "HAS_PROPERTY", "HAS_CITY", "HAS_COUNTRY"}

\* C3: in every reachable state there is at most one edge of each type from one
\* node to another, however often the phase that creates it has run.
C3_EdgeUnique ==
    /\ \A e \in edges : e.type \in EdgeTypes
    /\ \A e1, e2 \in edges :
        (e1.type = e2.type /\ e1.src = e2.src /\ e1.dst = e2.dst) => e1 = e2

C3_Witness ==
    /\ RunEnded /\ runs = 2 /\ mode = "phases" /\ prevMode = "phases"
    /\ {"PARENT_OF", "RESIDENT_OF", "HAS_CITY", "HAS_COUNTRY", "OWNED_BY", "OWNS",
        "LOCATED_IN", "HAS_PROPERTY"} \subseteq {e.type : e \in edges}
    /\ \E i \in 1..Len(persons) :
          CanBuildPerson(persons[i]) /\ Person(persons[i]).children = <<"Bob", "Bob">>

\* C4: a sentinel attribute value ("n/a" or "") never names a Country or City
\* node and never yields an edge: a person (property) none of whose records
\* gives a real value for an attribute has no edge of that attribute's kind,
\* and a city is tied to a country only where a record states both.
C4_NoSentinelLeak ==
    /\ \A n \in nodes : n.label \in {"Country", "City"} => n.props.name \notin Sentinels
    /\ \A e \in edges : e.src.name \notin Sentinels /\ e.dst.name \notin Sentinels
    /\ AllValid =>
        /\ \A e \in edges :
              (e.src.label = "Person" /\ e.src.name \in PersonNames
                    /\ e.dst.label \in {"City", "Country"})
              => \E kind \in PlaceKinds, i \in 1..Len(persons) :
                    /\ persons[i].name = e.src.name
                    /\ e.type = KindEdge(kind)
                    /\ e.dst.name = IF e.dst.label = "City"
                                    THEN CityOf(persons[i], kind)
                                    ELSE CountryOf(persons[i], kind)
        /\ \A e \in edges :
              (e.src.label = "Property" /\ e.src.name \in PropertyNames)
              => \E i \in 1..Len(properties) :
                    /\ properties[i].name = e.src.name
                    /\ e.dst.name = CASE e.dst.label = "Person" -> properties[i].owner
                                      [] e.dst.label = "City" -> properties[i].city
                                      [] e.dst.label = "Country" -> properties[i].country
        /\ \A e \in edges :
              (e.type = "HAS_CITY" /\ e.dst.name \in CityNames)
              => <<e.src.name, e.dst.name>> \in StatedPairs
        /\ \A e \in edges :
              (e.type = "HAS_COUNTRY" /\ e.src.name \in CityNames)
              => <<e.dst.name, e.src.name>> \in StatedPairs

\* a record with a real city under a sentinel country, one with an empty
\* string, and a property with a sentinel country have all been ingested
C4_Witness ==
    /\ RunEnded /\ CleanRun /\ AllValid
    /\ \E i \in 1..Len(persons) :
          /\ persons[i].residence_country = "n/a"
          /\ persons[i].residence_city = "Beirut"
          /\ persons[i].birth_city = ""
    /\ \E i \in 1..Len(properties) :
          properties[i].country = "" /\ properties[i].city = "Homs"
    /\ \E n \in nodes : n.label = "City" /\ n.props.name = "Beirut"
    /\ \E e \in edges : e.type = "RESIDENT_OF" /\ e.dst.name = "Beirut"

\* C10: ingest() completes clear_graph before its first write, so after a run
\* of ingest() without failure the store holds exactly the nodes and edges the
\* source records call for and nothing of what it held before.
C10_ClearThenRebuild ==
    (RunEnded /\ mode = "ingest" /\ CleanRun /\ AllValid)
    => (nodes = ExpectedNodes /\ edges = ExpectedEdges)

C10_Witness ==
    /\ RunEnded /\ mode = "ingest" /\ CleanRun /\ AllValid /\ runs = 1
    /\ snap.nodes = StaleNodes /\ snap.edges = StaleEdges
    /\ Len(persons) = 2 /\ Len(properties) = 1
    /\ nodes # {} /\ edges # {}

\* ---------------------------------------------------------------- C5
\* the PARENT_OF relation on names, and what is reachable along it
ParentRel == {<<e.src.name, e.dst.name>> : e \in ParentEdges}

RECURSIVE Closure(_)
Closure(S) ==
    LET S2 == S \cup {c \in QPersons : \E b \in S : <<b, c>> \in ParentRel}
    IN IF S2 = S THEN S ELSE Closure(S2)

Descendants(p) == Closure({c \in QPersons : <<p, c>> \in ParentRel})

Returned(f) == {r[f] : r \in DOMAIN records}

\* C5 as stated: retrieve_person_children returns exactly the persons one
\* PARENT_OF edge away, retrieve_person_grand_children exactly those at the end
\* of two (distinct) PARENT_OF edges, retrieve_person_inheritors exactly those
\* reachable by one or more PARENT_OF edges, on every graph; on A -> B -> C
\* these are {B}, {C} and {B, C} for A.
C5_Traversal ==
    ~raised =>
    /\ tool = "retrieve_person_children" =>
          /\ Returned("child_name") = {c \in QPersons : <<arg, c>> \in ParentRel}
          /\ Returned("parent_name") \subseteq {arg}
    /\ tool = "retrieve_person_grand_children" =>
          /\ Returned("grandchild_name") =
                {c \in QPersons : \E b \in QPersons :
                    /\ <<arg, b>> \in ParentRel /\ <<b, c>> \in ParentRel
                    /\ ~(arg = b /\ b = c)}
          /\ Returned("grandparent_name") \subseteq {arg}
    /\ tool = "retrieve_person_inheritors" =>
          /\ Returned("inheritor_name") = Descendants(arg)
          /\ Returned("root_ancestor") \subseteq {arg}
    /\ (ParentRel = {<<"A", "B">>, <<"B", "C">>} /\ arg = "A") =>
          /\ tool = "retrieve_person_children" => Returned("child_name") = {"B"}
          /\ tool = "retrieve_person_grand_children" => Returned("grandchild_name") = {"C"}
          /\ tool = "retrieve_person_inheritors" => Returned("inheritor_name") = {"B", "C"}

\* C5 as amended: the same, for every call that returns fewer rows than the
\* LIMIT of its query, that is, whose result the LIMIT has not cut.
C5_TraversalUncut ==
    BagTotal(records) < RowLimit => C5_Traversal

C5_Witness ==
    /\ ParentRel = {<<"A", "B">>, <<"B", "C">>}
    /\ tool = "retrieve_person_inheritors" /\ arg = "A" /\ ~raised
    /\ Returned("inheritor_name") = {"B", "C"}

\* ---------------------------------------------------------------- C6
\* names listed as a child or spouse that no Person record carries
MissingRefs ==
    UNION {Elems(Person(persons[i]).children) \cup Elems(Person(persons[i]).spouses)
            : i \in 1..Len(persons)} \ PersonNames

\* C6: a run over records that list a child or spouse without a Person record
\* meets no exception, creates no node and no edge for the missing name, and
\* creates every other edge the records call for.
C6_MissingReference ==
    (RunEnded /\ mode \in {"ingest", "phases"} /\ failed = {} /\ AllValid) =>
        /\ caught = {}
        /\ \A n \in nodes : n.props.name \notin MissingRefs
        /\ \A e \in edges : e.src.name \notin MissingRefs /\ e.dst.name \notin MissingRefs
        /\ ExpectedEdges \subseteq edges

C6_Witness ==
    /\ RunEnded /\ mode = "ingest" /\ failed = {} /\ AllValid
    /\ "Zed" \in MissingRefs
    /\ \E e \in edges : e.type = "PARENT_OF" /\ e.src.name = "Alice" /\ e.dst.name = "Bob"
    /\ \E e \in edges : e.type = "SPOUSE_OF" /\ e.src.name = "Bob" /\ e.dst.name = "Alice"

\* ---------------------------------------------------------------- C7
\* write statements a run over all-valid records issues when none fails
ExpectedIssued ==
    LET SumLen(f) ==
            LET RECURSIVE Sum(_)
                Sum(S) == IF S = {} THEN 0
                          ELSE LET n == CHOOSE x \in S : TRUE
                               IN Len(Person(LastNamed(persons, n))[f]) + Sum(S \ {n})
            IN Sum(PersonNames)
        Having(recs, names, f) == Cardinality({n \in names : HasValue(recs, n, f)})
    IN  Len(persons)
      + Cardinality(CountryNames) + Cardinality(CityNames)
      + Cardinality({<<CountryOf(persons[i], kind), CityOf(persons[i], kind)>> :
                        i \in 1..Len(persons), kind \in PlaceKinds}
                    \cap (STRING \X CityNames))
      + SumLen("children") + SumLen("spouses")
      + Having(persons, PersonNames, "residence_city")
      + Having(persons, PersonNames, "residence_country")
      + Having(persons, PersonNames, "birth_city")
      + Having(persons, PersonNames, "birth_country")
      + Having(persons, PersonNames, "death_city")
      + Having(persons, PersonNames, "death_country")
      + Len(properties)
      + Having(properties, PropertyNames, "owner")
      + Having(properties, PropertyNames, "country")
      + Having(properties, PropertyNames, "city")

HasNode(ref) == \E n \in nodes : Ref(n) = ref

\* the failed statement s would have written node n / edge e
WritesNode(s, n) ==
    \/ s.op = "upsert" /\ s.label = n.label /\ s.props.name = n.props.name
    \/ s.op = "node" /\ s.label = n.label /\ s.name = n.props.name
WritesEdge(s, e) ==
    /\ s.op = "edge"
    /\ \/ s.fwd = e.type /\ s.la = e.src.label /\ s.a = e.src.name
                         /\ s.lb = e.dst.label /\ s.b = e.dst.name
       \/ s.inv = e.type /\ s.lb = e.src.label /\ s.b = e.src.name
                         /\ s.la = e.dst.label /\ s.a = e.dst.name

\* the write statements of a failure-free run in the order of their issue:
\* those of the program, loop after loop, the statements of a loop over a set
\* in any order
ExpectedWritten ==
    SelectSeq(Program, LAMBDA g : \A s \in g : s.op \notin {"clear", "read"})

\* C7: a write statement that fails with a store error is caught and every other
\* statement of the run is still issued, in the order in which a failure-free
\* run issues them; the store then holds what a failure-free run leaves, less
\* what the failed statements would have written and less the edges that needed
\* a node they would have created.
C7_FailureIsolated ==
    (RunEnded /\ mode = "ingest" /\ AllValid /\ "clear" \notin caught) =>
        /\ issued = ExpectedIssued
        /\ written = ExpectedWritten
        /\ \A n \in nodes : n \in ExpectedNodes \/ \E s \in failed : WritesNode(s, n)
        /\ \A n \in ExpectedNodes : HasNode(Ref(n)) \/ \E s \in failed : WritesNode(s, n)
        /\ edges \subseteq ExpectedEdges
        /\ \A e \in ExpectedEdges :
              \/ e \in edges
              \/ ~HasNode(e.src) \/ ~HasNode(e.dst)
              \/ \E s \in failed : WritesEdge(s, e)

\* the upsert of a Country or City failed and the run went on to the end
C7_Witness ==
    /\ RunEnded /\ mode = "ingest" /\ AllValid /\ "clear" \notin caught
    /\ \E s \in failed : s.op = "node"
    /\ ExpectedEdges \ edges # {}
    /\ edges # {}
    /\ Len(persons) = 2 /\ Len(properties) = 1

\* ---------------------------------------------------------------- C8
\* C8: a source record from which the record object cannot be built does not
\* abort the batch: the other records of its phase are still upserted and the
\* later steps of the phase (Country and City nodes, edges) still run.
C8_BadRecordSkipped ==
    (RunEnded /\ mode \in {"ingest", "phases"} /\ failed = {} /\ "clear" \notin caught) =>
        /\ \A i \in 1..Len(persons) :
              CanBuildPerson(persons[i]) =>
                /\ HasNode(NodeRef("Person", persons[i].name))
                /\ \A kind \in PlaceKinds :
                      CountryOf(persons[i], kind) \notin Sentinels
                      => HasNode(NodeRef("Country", CountryOf(persons[i], kind)))
        /\ \A i \in 1..Len(properties) :
              CanBuildProperty(properties[i])
              => HasNode(NodeRef("Property", properties[i].name))

\* ---------------------------------------------------------------- C9
\* C9: a failure of the store's bulk clear does not leave clear_graph as an
\* exception, and once clear_graph has returned the store is empty.
C9_ClearFallsBack ==
    /\ "clear" \notin caught
    /\ (mode = "ingest" /\ pc = "persons_load" /\ idx = 1 /\ issued = 0)
          => (nodes = {} /\ edges = {})

\* --------------------------------------------------------------- C21
\* the records of the scenario, attributes it does not name being "n/a"
ScenarioPersons ==
    << PersonData([name |-> "Alice", residence_country |-> "Lebanon",
                   residence_city |-> "Beirut", children |-> <<"Bob">>]),
       PersonData([name |-> "Bob"]) >>

\* edges of the type between the two named nodes
EdgesBetween(type, la, a, lb, b) ==
    {e \in edges : /\ e.type = type
                   /\ e.src.label = la /\ e.src.name = a
                   /\ e.dst.label = lb /\ e.dst.name = b}

\* C21: after a failure-free ingest of Alice (children Bob, residing in Beirut,
\* Lebanon) and Bob, with no property records, there is exactly one RESIDENT_OF
\* edge Alice -> Beirut, one RESIDENT_OF edge Alice -> Lebanon, one HAS_CITY
\* edge Lebanon -> Beirut and one PARENT_OF edge Alice -> Bob, and the query of
\* retrieve_properties_in_city("Beirut") yields no row.
C21_Scenario ==
    (RunEnded /\ mode = "ingest" /\ CleanRun
        /\ persons = ScenarioPersons /\ properties = <<>>)
    => /\ Cardinality(EdgesBetween("RESIDENT_OF", "Person", "Alice", "City", "Beirut")) = 1
       /\ Cardinality(EdgesBetween("RESIDENT_OF", "Person", "Alice", "Country", "Lebanon")) = 1
       /\ Cardinality(EdgesBetween("HAS_CITY", "Country", "Lebanon", "City", "Beirut")) = 1
       /\ Cardinality(EdgesBetween("PARENT_OF", "Person", "Alice", "Person", "Bob")) = 1
       /\ Cardinality({e \in edges : e.type \in {"RESIDENT_OF", "HAS_CITY", "PARENT_OF"}}) = 4
       /\ PropertiesInCity("Beirut") = {NoRows}

C21_Witness ==
    /\ RunEnded /\ mode = "ingest" /\ CleanRun /\ runs = 1
    /\ persons = ScenarioPersons /\ properties = <<>>
    /\ Cardinality({n \in nodes : n.label = "Person"}) = 2
    /\ Cardinality(edges) = 5

\* --------------------------------------------------------------- C22
\* records of the current run's load loops that have been processed
PersonsProcessed ==
    IF pc = "clear" \/ "clear" \in caught THEN 0
    ELSE IF pc = "persons_load" THEN idx - 1 ELSE Len(persons)
PropsProcessed ==
    IF "clear" \in caught
          \/ pc \in {StepOrder[i] : i \in 1..14} THEN 0
    ELSE IF pc = "props_load" THEN idx - 1 ELSE Len(properties)

\* C22: at every point of an ingestion over well-formed records with no store
\* error, no exception has been met and each name processed so far names one
\* node of its label, whose attributes are those of the last record of that
\* name processed so far, whatever node of that name there was before.
C22_UpsertOverwrites ==
    (mode \in {"ingest", "phases"} /\ failed = {} /\ AllValid) =>
        /\ caught = {}
        /\ \A i \in 1..PersonsProcessed :
              Match(nodes, "Person", persons[i].name) =
                 {[label |-> "Person", k |-> 1,
                   props |-> PersonParams(Person(
                      LastNamed(SubSeq(persons, 1, PersonsProcessed), persons[i].name)))]}
        /\ \A i \in 1..PropsProcessed :
              Match(nodes, "Property", properties[i].name) =
                 {[label |-> "Property", k |-> 1,
                   props |-> LastNamed(SubSeq(properties, 1, PropsProcessed),
                                       properties[i].name)]}

\* two records named Alice, the notary first: the node has the attributes of
\* the second one; and the property is upserted onto the node of an earlier run
C22_Witness ==
    /\ mode = "phases" /\ prevMode = "ingest" /\ failed = {} /\ AllValid
    /\ pc = "owners"
    /\ Len(persons) = 2 /\ persons[1].name = "Alice" /\ persons[2].name = "Alice"
    /\ persons[1].profession = "notary" /\ persons[2].profession = "n/a"
    /\ \E n \in nodes : /\ n.label = "Person" /\ n.props.name = "Alice"
                        /\ n.props.profession = "n/a"
                        /\ n.props.residence_country = "Lebanon"
    /\ \E n \in snap.nodes : n.label = "Property" /\ n.props = properties[1]

\* --------------------------------------------------------------- C23
\* both edges of the pairing of a country with a city are in the store
Paired(country, city) ==
    /\ Edge("HAS_CITY", "Country", country, "City", city) \in edges
    /\ Edge("HAS_COUNTRY", "City", city, "Country", country) \in edges

\* C23: after a failure-free ingest, every record that states a country
\* together with a city -- a person's residence, birth or death place, or a
\* property's location -- has its HAS_CITY and HAS_COUNTRY edges in the store.
C23_PlacePairing ==
    (RunEnded /\ mode = "ingest" /\ CleanRun /\ AllValid) =>
        /\ \A i \in 1..Len(persons) : \A kind \in PlaceKinds :
              (CountryOf(persons[i], kind) \notin Sentinels
                    /\ CityOf(persons[i], kind) \notin Sentinels)
              => Paired(CountryOf(persons[i], kind), CityOf(persons[i], kind))
        /\ \A i \in 1..Len(properties) :
              (properties[i].country \notin Sentinels
                    /\ properties[i].city \notin Sentinels)
              => Paired(properties[i].country, properties[i].city)

\* --------------------------------------------------------------- C24
\* the property is tied to the place by LOCATED_IN and HAS_PROPERTY
Located(property, label, place) ==
    /\ HasNode(NodeRef(label, place))
    /\ Edge("LOCATED_IN", "Property", property, label, place) \in edges
    /\ Edge("HAS_PROPERTY", label, place, "Property", property) \in edges

\* C24: after a failure-free ingest, every property record with a real city
\* (country) has a City (Country) node of that name tied to the Property node
\* by LOCATED_IN and HAS_PROPERTY, whatever the person records mention.
C24_PropertyPlaces ==
    (RunEnded /\ mode = "ingest" /\ CleanRun /\ AllValid) =>
        \A i \in 1..Len(properties) :
            /\ properties[i].city \notin Sentinels
                  => Located(properties[i].name, "City", properties[i].city)
            /\ properties[i].country \notin Sentinels
                  => Located(properties[i].name, "Country", properties[i].country)

\* --------------------------------------------------------------- C25
\* C25: when clear_graph of the Graphiti service has returned, it has built the
\* indices and constraints at a point after it removed the data, on the path
\* where clear_data succeeds and on the fallback path.
C25_IndicesAfterClear ==
    (svc.backend = "graphiti" /\ call.op = "clear_graph" /\ call.outcome = "returned")
        => \E i, j \in DOMAIN call.events :
              i < j /\ call.events[i] = "clear" /\ call.events[j] = "indices"

\* --------------------------------------------------------------- C27
\* C27: expose_driver, called on a constructed service on which neither close
\* nor finalize has returned, returns a connection handle and not None, on both
\* backends and whatever was called before it.
C27_ExposeDriver ==
    (call.op = "expose_driver" /\ ~call.closed)
        => (call.outcome = "returned" /\ call.result.kind = "handle")

\* --------------------------------------------------------------- C30
\* the edge types created two by two, one statement for both
InversePairs ==
    { <<"OWNED_BY", "OWNS">>, <<"LOCATED_IN", "HAS_PROPERTY">>,
      <<"HAS_CITY", "HAS_COUNTRY">> }

HasInverse(e, type) ==
    \E f \in edges : f.type = type /\ f.src = e.dst /\ f.dst = e.src

\* C30: in every state, hence between any two statements, an edge of one type
\* of an inverse pair runs from a node to another exactly when the edge of the
\* other type runs back: OWNED_BY / OWNS, LOCATED_IN / HAS_PROPERTY,
\* HAS_CITY / HAS_COUNTRY.
C30_InversePairs ==
    \A pr \in InversePairs : \A e \in edges :
        /\ e.type = pr[1] => HasInverse(e, pr[2])
        /\ e.type = pr[2] => HasInverse(e, pr[1])

\* in the middle of the property phase, after a statement has failed, with
\* edges of all six types in the store
C30_Witness ==
    /\ mode = "ingest" /\ pc = "prop_cities" /\ failed # {}
    /\ \A pr \in InversePairs : \E e \in edges : e.type = pr[1]
    /\ \E e \in edges : e.type = "OWNS" /\ e.src.name = "Alice" /\ e.dst.name = "Farm"

\* --------------------------------------------------------------- C31
\* the identities of the nodes: label, name and the number telling apart
\* nodes of one label and name
NodeIds(ns) == {Ref(n) : n \in ns}

\* C31: a step other than the clear of ingest() keeps every node and every
\* edge the store holds (ON MATCH SET may change a node's attributes, the node
\* stays), and a step of a retrieve_* tool leaves the store as it is.
C31_OnlyClearRemoves ==
    [][ /\ pc # "clear" => (NodeIds(nodes) \subseteq NodeIds(nodes') /\ edges \subseteq edges')
        /\ tool' # tool => UNCHANGED store ]_vars

\* a tool has returned rows from a store that a run without a clear has
\* added nodes and edges to, those it found being still there
C31_Witness ==
    /\ mode = "phases" /\ pc = "done" /\ CleanRun
    /\ tool # "none" /\ ~raised /\ records # NoRows
    /\ snap.nodes # {} /\ snap.edges # {}
    /\ NodeIds(snap.nodes) \subseteq NodeIds(nodes) /\ NodeIds(snap.nodes) # NodeIds(nodes)
    /\ snap.edges \subseteq edges /\ snap.edges # edges

\* --------------------------------------------------------------- C32
Acyclic == \A p \in QPersons : p \notin Descendants(p)

\* how many of the returned rows name c as the inheritor
TimesReturned(c) ==
    BagTotal([r \in {x \in DOMAIN records : x.inheritor_name = c} |-> records[r]])

\* C32: on an acyclic PARENT_OF graph with fewer than 100 descendant paths,
\* retrieve_person_inheritors(p) returns every person reachable from p by one
\* or more PARENT_OF edges exactly once, and nobody else.
C32_ClosureAsSet ==
    (/\ tool = "retrieve_person_inheritors" /\ ~raised /\ arg \in QPersons
     /\ Acyclic /\ Cardinality(InheritorMatches(arg)) < RowLimit)
        => /\ Returned("inheritor_name") = Descendants(arg)
           /\ \A c \in Descendants(arg) : TimesReturned(c) = 1

\* --------------------------------------------------------------- C33
PersonPlaceTypes == {"RESIDENT_OF", "BORN_IN", "DIED_IN"}

\* C33: after an ingest() without failure every Country node and every City
\* node is the target of a RESIDENT_OF, BORN_IN or DIED_IN edge of a Person,
\* whatever the records, records sharing a name included.
C33_PlacesReferenced ==
    (RunEnded /\ mode = "ingest" /\ CleanRun /\ AllValid) =>
        \A n \in nodes : n.label \in {"Country", "City"} =>
            \E e \in edges : /\ e.type \in PersonPlaceTypes
                             /\ e.src.label = "Person" /\ e.dst = Ref(n)

\* --------------------------------------------------------------- C34
\* the edges of a type that leave the node for nodes of a label
EdgesOut(n, type, label) ==
    {e \in edges : e.type = type /\ e.src = Ref(n) /\ e.dst.label = label}

\* C34: after ingest() a Property has at most one OWNED_BY edge and at most
\* one LOCATED_IN edge to a City and to a Country, and a Person at most one
\* RESIDENT_OF, one BORN_IN and one DIED_IN edge to a City and to a Country,
\* also when records repeat a name with other values.
C34_AtMostOne ==
    (RunEnded /\ mode = "ingest") =>
        \A n \in nodes :
            /\ n.label = "Property" =>
                  /\ Cardinality(EdgesOut(n, "OWNED_BY", "Person")) <= 1
                  /\ \A l \in {"City", "Country"} :
                        Cardinality(EdgesOut(n, "LOCATED_IN", l)) <= 1
            /\ n.label = "Person" =>
                  \A t \in PersonPlaceTypes : \A l \in {"City", "Country"} :
                      Cardinality(EdgesOut(n, t, l)) <= 1

\* an ingest() without failure of two Alice records that live in different
\* countries and two Farm records with different owners; the farm has its
\* one owner and Alice her one country of residence
C34_Witness ==
    /\ RunEnded /\ mode = "ingest" /\ CleanRun
    /\ persons[1].name = "Alice" /\ persons[2].name = "Alice"
    /\ persons[1].residence_country # persons[2].residence_country
    /\ properties[1].owner # properties[2].owner
    /\ \E n \in nodes : n.label = "Property" /\ EdgesOut(n, "OWNED_BY", "Person") # {}
    /\ \E n \in nodes : n.label = "Person" /\ EdgesOut(n, "RESIDENT_OF", "Country") # {}

\* --------------------------------------------------------------- C35
\* C35: when the names of the records are pairwise distinct, an ingest() of
\* the files with their records in another order ends in the nodes and edges
\* that the ingest() before it ended in.
C35_OrderFree ==
    (/\ RunEnded /\ reordered /\ runs = 2
     /\ mode = "ingest" /\ prevMode = "ingest" /\ failed = {})
        => (nodes = snap.nodes /\ edges = snap.edges)

\* --------------------------------------------------------------- C36
\* C36: when _initialize has failed under a method of the Graphiti service,
\* the service is left without a client (graphiti is None), so that the next
\* method initializes it in full.
C36_FailedInitResets ==
    (svc.backend = "graphiti" /\ call.outcome = "raised" /\ call.fault = "init")
        => svc.graphiti = "none"

\* --------------------------------------------------------------- C37
\* C37: when two methods of a Graphiti service are started together on a
\* service without a client, the client is constructed once (again only by a
\* clear_graph that falls back) and neither method calls the client before
\* build_indices_and_constraints is over.
C37_InitOnce ==
    /\ ~tasks.early
    /\ ~tasks.fell => tasks.built <= 1

\* --------------------------------------------------------------- C38
\* C38: a close or finalize that returns leaves the Graphiti service without
\* a client; a method that calls the client and starts on a service without
\* one builds a client and its indices before its own client call; and no
\* method calls a client on which close() has been called.
C38_ReusableAfterClose ==
    /\ ~tasks.stale
    /\ \A t \in TaskIds :
          /\ (tasks.kind[t] \in {"close", "finalize"} /\ tasks.at[t] = "returned")
                => tasks.left[t].graphiti = "none"
          /\ (tasks.kind[t] \in ClientMethods /\ tasks.at[t] = "calling"
              /\ tasks.began[t].graphiti = "none")
                => (tasks.sent[t] = 2 /\ tasks.events[t] = <<"indices">>)

\* --------------------------------------------------------------- C39
\* C39: over the executions of main() of one chat session, no tool query is
\* made through a graph service that has been finalized.
C39_SessionServiceOpen == ~chat.onClosed

\* --------------------------------------------------------------- C40
\* C40: when _ingest_single_document has returned for a document with
\* chunks, every chunk for which add_episode could be called was handed to
\* it, one at a time in index order, whether or not an earlier one failed,
\* and the errors of the result hold one entry for every chunk whose
\* add_episode failed.
C40_FailuresReported ==
    (doc.at = "returned" /\ doc.n > 0) =>
        /\ doc.submitted = SelectSeq([k \in 1..doc.n |-> k - 1],
                                     LAMBDA x : x \notin doc.unprepared)
        /\ Len(doc.result.errors) = Cardinality(doc.failed)

\* the first half of C40 alone: no failure stops the remaining chunks
C40_AllSubmitted ==
    (doc.at = "returned" /\ doc.n > 0) =>
        doc.submitted = SelectSeq([k \in 1..doc.n |-> k - 1],
                                  LAMBDA x : x \notin doc.unprepared)

\* --------------------------------------------------------------- C26
AllDone == \A r \in RunIds : proc[r].done
RaceClean == \A r \in RunIds : proc[r].failed = {}

\* the runs that the interleavings are counted from: neither has issued a
\* statement
BothAtStart == \A r \in RunIds : proc[r] = FreshRuns[r]

\* the statements of the two runs taken one by one in every order that keeps
\* the order of each run: from the positions and the graph of c, every
\* position and graph one more statement leads to
OneMore(c) ==
    UNION {{[pos |-> [c.pos EXCEPT ![r] = Advance(c.pos[r], s)],
             graph |-> EffectOn(s, c.graph)]
               : s \in (IF c.pos[r].at <= Len(Program)
                        THEN Program[c.pos[r].at] \ c.pos[r].visited ELSE {})}
             : r \in RunIds}

RECURSIVE Interleaved(_, _)
Interleaved(C, n) ==
    IF n = 0 THEN C ELSE Interleaved(UNION {OneMore(c) : c \in C}, n - 1)

RECURSIVE Statements(_)
Statements(groups) ==
    IF groups = <<>> THEN 0 ELSE Cardinality(Head(groups)) + Statements(Tail(groups))

\* the graphs that the interleavings of the two runs end in
FinalGraphs ==
    {c.graph : c \in Interleaved({[pos |-> [r \in RunIds |-> [at |-> 1, visited |-> {}]],
                                   graph |-> [nodes |-> nodes, edges |-> edges]]},
                                 2 * Statements(Program))}

\* C26 as stated: for two runs over records of a person and a property there
\* is an interleaving of the runs' statements, none of them failing, that ends
\* in a graph other than the graph of a single run.
C26_UnsafeInterleaving ==
    (BothAtStart /\ AllValid /\ persons # <<>> /\ properties # <<>>) =>
        \E g \in FinalGraphs : g.nodes # ExpectedNodes \/ g.edges # ExpectedEdges

\* C26 (amended): two runs of ingest() over the same records on one store,
\* their statements interleaved in any order and executed by the store one
\* at a time, end, when no statement fails, in the graph of a single run.
C26_InterleavedRunsConverge ==
    (AllDone /\ RaceClean /\ AllValid) =>
        (nodes = ExpectedNodes /\ edges = ExpectedEdges)

\* both runs are over without an error, each of them had statements answered
\* while the other was between its clear and its end, and the store holds
\* the graph of a single run over a person and a property
C26_Witness ==
    /\ AllDone /\ RaceClean /\ AllValid
    /\ Len(persons) = 1 /\ Len(properties) = 1
    /\ \A r \in RunIds : proc[r].met
    /\ nodes = ExpectedNodes /\ edges = ExpectedEdges /\ nodes # {}

\* --------------------------------------------------------------- C28
\* the statements of log are those of the program from group `at` on, in the
\* order of the groups
RECURSIVE InProgramOrder(_, _, _)
InProgramOrder(log, at, vis) ==
    IF log = <<>> THEN TRUE
    ELSE /\ at <= Len(Program)
         /\ Head(log) \in Program[at] \ vis
         /\ IF vis \cup {Head(log)} = Program[at]
            THEN InProgramOrder(Tail(log), at + 1, {})
            ELSE InProgramOrder(Tail(log), at, vis \cup {Head(log)})

\* C28: a run has at most one statement in flight, and the store has answered
\* its statements, completed or failed, in the order of the program.
C28_OneInFlight ==
    \A r \in RunIds :
        /\ Cardinality(proc[r].inflight) <= 1
        /\ InProgramOrder(proc[r].log, 1, {})

\* a run has an edge statement in flight after a failed statement and four
\* or more answered ones
C28_Witness ==
    \E r \in RunIds :
        /\ Len(proc[r].log) >= 5 /\ proc[r].failed # {}
        /\ ClearStmt \notin proc[r].failed
        /\ \E s \in proc[r].inflight : s.op = "edge"

\* --------------------------------------------------------------- C29
RECURSIVE Size(_)
Size(groups) == IF groups = <<>> THEN 0 ELSE Cardinality(Head(groups)) + Size(Tail(groups))

IsNodeStmt(s, labels) == s.op \in {"upsert", "node"} /\ s.label \in labels

\* node statements for the labels that the program has / that run r has had answered
NodesPlanned(labels) ==
    Size([i \in DOMAIN Program |-> {s \in Program[i] : IsNodeStmt(s, labels)}])
NodesAnswered(r, labels) ==
    Len(SelectSeq(proc[r].log, LAMBDA s : IsNodeStmt(s, labels)))

\* C29: while an edge statement of a run is in flight, every Person, Country
\* and City upsert of the run has been answered; while it is an edge of a
\* property, so have the whole person phase and every Property upsert.
C29_CreateBeforeRelate ==
    \A r \in RunIds : \A s \in proc[r].inflight :
        s.op = "edge" =>
            /\ NodesAnswered(r, {"Person", "Country", "City"})
                  = NodesPlanned({"Person", "Country", "City"})
            /\ s.la = "Property" =>
                  /\ NodesAnswered(r, {"Property"}) = NodesPlanned({"Property"})
                  /\ Len(proc[r].log) >= 1 + Size(NonEmpty(PersonPhase))
                                           + NodesPlanned({"Property"})

\* the HAS_CITY statement of a run is in flight, and so is the OWNED_BY
\* statement of the other
C29_Witness ==
    \E r, q \in RunIds :
        /\ \E s \in proc[r].inflight : s.op = "edge" /\ s.fwd = "HAS_CITY"
        /\ \E s \in proc[q].inflight : s.op = "edge" /\ s.fwd = "OWNED_BY"
        /\ NodesPlanned({"Person", "Country", "City", "Property"}) = 4

\* --------------------------------------------------------------- C11
Teardown == {"close", "finalize"}

\* the state of a service and of its store is what it was after the call before
SameAsAfterLast ==
    /\ svc = last.svc /\ driver = last.driver
    /\ nodes = last.nodes /\ edges = last.edges

\* C11: on both backends, a close() or finalize() that follows a close() or
\* finalize() which completed raises nothing and changes nothing: the state
\* after the second call is the state after the first.
C11_TeardownIdempotent ==
    (last.op \in Teardown /\ last.outcome = "returned" /\ call.op \in Teardown)
        => (call.outcome = "returned" /\ SameAsAfterLast)

\* a Neo4j service, just constructed, was closed and then finalized
C11_Witness ==
    /\ svc.backend = "neo4j" /\ call.n = 3
    /\ last.op = "close" /\ last.outcome = "returned"
    /\ call.op = "finalize" /\ call.outcome = "returned"
    /\ driver = "closed"

\* --------------------------------------------------------------- C12
\* C12: on both backends clear_graph, close and finalize return without raising
\* when no operation of the service has succeeded before them, the store being
\* reachable or not.
C12_SafeTeardown ==
    (call.op \in Teardown \cup {"clear_graph"} /\ ~call.prior)
        => call.outcome = "returned"

\* --------------------------------------------------------------- C13
\* C13: a failing read never raises: a retrieve_* tool whose query raised
\* returns no rows, and search / search_aux of the Graphiti service return, with
\* an empty list whenever anything under them failed, the lazy initialization
\* included.
C13_ReadsNeverRaise ==
    /\ (tool # "none" /\ raised) => records = NoRows
    /\ (svc.backend = "graphiti" /\ call.op \in {"search", "search_aux"})
          => /\ call.outcome = "returned"
             /\ call.fault # "none" => call.result = Value("list", <<>>)

\* --------------------------------------------------------------- C14
\* C14: Neo4jGraphService.query raises, returning nothing, whenever the store
\* fails or refuses the statement; when the store answers, it returns one
\* mapping per record of the answer, in the answer's order, each mapping having
\* the answer's column names as keys and the record's values under them.
C14_QueryPropagates ==
    (svc.backend = "neo4j" /\ call.op = "query") =>
        /\ call.fault # "none" => (call.outcome = "raised" /\ call.result = NoValue)
        /\ call.fault = "none" =>
              /\ call.outcome = "returned" /\ call.result.kind = "list"
              /\ Len(call.result.items) = Len(call.answer.records)
              /\ \A i \in DOMAIN call.answer.records :
                    /\ DOMAIN call.result.items[i]
                          = {call.answer.keys[j] : j \in DOMAIN call.answer.keys}
                    /\ \A j \in DOMAIN call.answer.keys :
                          call.result.items[i][call.answer.keys[j]]
                              = call.answer.records[i][j]

\* a country was merged and the countries were then read: two records, Peru
\* the first of them
C14_Witness ==
    /\ svc.backend = "neo4j" /\ call.op = "query" /\ call.outcome = "returned"
    /\ call.answer.keys = <<"n.name">>
    /\ Len(call.result.items) = 2
    /\ call.result.items[1]["n.name"] = "Peru"

\* --------------------------------------------------------------- C15
\* C15: ingest and visualize return normally whatever fails inside them:
\* clear_graph, the loading of a record, a statement, or the teardown; no
\* exception leaves the command function.
C15_NeverRaisesPast ==
    mode \in {"ingest", "visualize"} => ~escaped

\* --------------------------------------------------------------- C16
\* C16: a run of ingest or visualize calls graph_svc.finalize() exactly once,
\* as its last step, on every path: not before the command is over, once when
\* it is; and a run whose clear_graph failed has issued no write statement.
C16_FinalizeOnce ==
    mode \in {"ingest", "visualize"} =>
        /\ finalizes = IF pc = "done" THEN 1 ELSE 0
        /\ "clear" \in caught => issued = 0

\* visualize returned early for a missing parameter file, after an ingest
C16_Witness ==
    /\ RunEnded /\ mode = "visualize" /\ files = {"query"}
    /\ prevMode = "ingest" /\ finalizes = 1 /\ caught = {}

\* --------------------------------------------------------------- C17
\* C17: with a credential missing from the configuration (URI, user or
\* password), neither backend's constructor yields a service object.
C17_MissingCredentials ==
    env # Credentials => svc.backend = "none"

\* --------------------------------------------------------------- C18
\* C18: the methods a backend only stubs return an empty result (None, [] or
\* {}), send nothing to the store and leave service and store as they were:
\* query of the Graphiti service, which does not initialize the client, and
\* add_episode, add_episode_aux, search, search_aux, get_related_entities,
\* get_entity_timeline and get_graph_statistics of the Neo4j service.
C18_NoOps ==
    (\/ svc.backend = "graphiti" /\ call.op = "query"
     \/ svc.backend = "neo4j" /\ call.op \in {m[1] : m \in Neo4jStubs})
        => /\ call.outcome = "returned"
           /\ call.result.kind \in {"None", "list", "dict"}
           /\ call.result.items = <<>>
           /\ call.sent = 0
           /\ SameAsAfterLast

\* query on a Graphiti service just constructed, whose client could have been
\* initialized: there is still no client
C18_Witness ==
    /\ svc.backend = "graphiti" /\ "uri" \in env
    /\ last.op = "construct" /\ call.op = "query" /\ call.outcome = "returned"
    /\ svc.graphiti = "none"

\* --------------------------------------------------------------- C19
\* C19: whatever the store holds, no retrieve_* tool returns more than 100 rows.
C19_RowCap ==
    BagTotal(records) <= RowLimit

\* --------------------------------------------------------------- C20
\* C20: on every store, PARENT_OF cycles and self-loops included,
\* retrieve_person_inheritors comes to an end for every person asked about (no
\* path it follows is longer than the number of PARENT_OF edges), and what it
\* returns has at most 100 rows.
C20_InheritorsBounded ==
    /\ tool = "none" =>
          \A p \in QPersons : \A t \in InheritorMatches(p) :
              Len(t) <= Cardinality(ParentEdges)
    /\ tool = "retrieve_person_inheritors" => BagTotal(records) <= RowLimit

\* every person is a parent of every person: the paths from A are more than
\* 100, and 100 rows came back, naming all three persons
C20_Witness ==
    /\ edges = DenseStore.edges
    /\ tool = "retrieve_person_inheritors" /\ arg = "A" /\ ~raised
    /\ BagTotal(records) = RowLimit
    /\ Returned("inheritor_name") = QPersons

====
